---- MODULE Spec2Model ----
(***************************************************************************)
(* Session orchestration and streaming of moru-ai/maru.                    *)
(*                                                                         *)
(* Part 1 models apps/server/src/services/agent-session.ts: sendMessage,   *)
(* the handleMessage closure, the doPoll loop, pollFile, restoreSession    *)
(* and interrupt, for one task and a bounded number of sendMessage calls.  *)
(* Every await of the source is a step boundary; the code between two      *)
(* awaits is one atomic action.                                            *)
(*                                                                         *)
(* Part 2 models the stream buffer and the room fan-out of the socket      *)
(* server (src/unnamed/part_009).                                          *)
(***************************************************************************)
EXTENDS Integers, Sequences, FiniteSets, TLC

\* ------------------------------------------------------------------ bounds
MaxCalls == 2       \* sendMessage calls issued for the task
MaxLines == 3       \* lines the agent writes to session logs, in total
MaxOdd == 1         \* of those, lines that are blank, malformed or API errors
MaxFaults == 1      \* infrastructure failures (create, run, stdin, db, storage)
MaxSids == 2        \* distinct session identities the agent hands out
MaxStderr == 1      \* stderr chunks that match the startup-error patterns
MaxViewers == 2     \* sockets connected to the socket server
MaxChunks == 3      \* stream chunks published for the task
MaxInterrupts == 2  \* interrupt calls issued for the task
MaxFsEvents == 3    \* raw filesystem events the sandbox delivers
MaxPaths == 2       \* distinct workspace paths they name
MaxRestores == 2    \* restoreCheckpoint calls issued for the task
MaxMessages == 4    \* chat messages of the task
MaxTodoWrites == 2  \* writes of the todo tool to the task's todo table
MaxContents == 1    \* distinct todo contents
MaxCheckpoints == 2 \* createCheckpoint calls issued for the task
MaxClock == 1       \* milliseconds that pass
MaxFiles == 2       \* files in the sandbox that is saved
MaxData == 2        \* distinct file contents
MaxOut == 5         \* characters the agent subprocess prints to its standard output
MaxWrites == 3      \* writes of the agent to its session log that raise a filesystem event

Calls == 1..MaxCalls
NoCall == 0
NoSid == 0
Sids == 1..MaxSids
NoArchive == 0

\* Origins of the asynchronous continuations of one call: the doPoll loop and
\* the three places handleMessage is called with a terminal message from.
Origins == {"regular", "agent", "timeout", "stderr"}

VARIABLES
    \* ---- process-wide and durable state
    active,           \* the registry: the call whose entry is stored for the task, or NoCall
    taskStatus,       \* task.status
    taskSessionId,    \* task.sessionId
    taskArchive,      \* task.workspaceArchiveId
    persisted,        \* the sessionEvent table, in creation order
    emitted,          \* what emitToTask / emitSessionEntry sent to the room, in order
    archives,         \* the archive store: archive id -> the session logs saved
    storageConfigured,\* isSandboxStorageConfigured()
    \* ---- per sendMessage call (closure state)
    pc,               \* where the body of sendMessage is
    snapSid,          \* task?.sessionId as read by findUnique
    snapArchive,      \* task?.workspaceArchiveId as read by findUnique
    sessionId,        \* let sessionId
    linesRead,        \* let linesRead
    stopped,          \* let stopped
    pollTimer,        \* a setTimeout(doPoll) is pending
    hasApiError,      \* let hasApiError
    apiErrorMessage,  \* let apiErrorMessage
    completeResolved, \* done() has been called
    th,               \* the asynchronous continuations, by origin
    \* ---- per call: its sandbox and agent subprocess (environment)
    sandbox,          \* "none" | "alive" | "killed"
    files,            \* session log files of the sandbox: sid -> lines
    agent,            \* "none" | "running" | "started" | "finished" | "exited" | "killed"
    agentSid,         \* session the agent writes to
    late,             \* Date.now() - sessionStartTime > MAX_SESSION_TIMEOUT_MS
    stdinSent,        \* control messages written to the agent's stdin
    \* ---- environment budgets
    written, odd, faults, stderrs, nextSid,
    \* ---- the socket server's stream state of the task and its room
    streamChunks,     \* taskStreamStates.get(taskId).chunks
    isStreaming,      \* taskStreamStates.get(taskId).isStreaming
    room,             \* the sockets in room task-<taskId>
    connTask,         \* connectionStates.get(id).taskId is the task
    joinPc,           \* where a socket's join-task handler is
    historyPc,        \* where a socket's request-history handler is
    received,         \* the chunks each socket was sent, replayed or live, in order
    published,        \* history: every chunk given to emitStreamChunk, in order
    flagSent,         \* isStreaming of the last stream-state event sent to each socket
    \* ---- calls of interrupt(taskId)
    interrupts,       \* how many have been issued
    intPc,            \* where the body of the call in progress is
    intResult,        \* how the last call ended: "none" | "noop" | "sent" | "threw"
    \* ---- the filesystem watcher registered for the task
    watcher,          \* watchers.get(taskId): its isPaused, changeBuffer, flushTimer, watchHandle,
                      \* and the number of flush callbacks setTimeout holds for it
    fsDelivered,      \* how many raw events the sandbox has delivered; the last one's identity
    pausedIds,        \* history: the events delivered while the watcher was paused
    resumeMark,       \* history: fsDelivered at the last resume() that un-paused
    watcherRegistered, \* watchers.has(taskId)
    sandboxCached,    \* sandboxCache.has(taskId)
    \* ---- calls of restoreCheckpoint(taskId, ...)
    restorePc,        \* where the body of each call is
    restoreIds,       \* history: the events delivered between a call's pause and resume steps
    restoreTarget,    \* targetMessageId of each call
    restoreFrom,      \* the message findCheckpointMessage returned to each call
    restoreSnap,      \* checkpoint.todoSnapshot each call restores
    restoreRead,      \* metaWrites when findCheckpointMessage read the messages
    lastRestore,      \* history: target, restoreRead and todo list of the last restore committed
    \* ---- the database rows of the task that checkpoint-service.ts reads and writes
    todos,            \* the todo table
    todoWrites,       \* how many writes the todo tool has made
    clock,            \* Date.now()
    metadata,         \* chatMessage.metadata.checkpoint of each message
    metaWrites,       \* history: how many chatMessage.update calls have been applied
    \* ---- calls of createCheckpoint(taskId, messageId)
    cpPc,             \* where the body of each call is
    cpMsg,            \* messageId of each call
    cpData,           \* const todoSnapshot, then const checkpointData of each call
    \* ---- one save of a sandbox's files and one restore of the archive it made
    arcPc,            \* "editing" | "saved" | "failed" | "restored"
    fsSource,         \* the files of the sandbox that is saved: path -> content
    savePaths,        \* options.paths of the save
    saveExcludes,     \* options.excludes of the save
    archive,          \* the members of archive.tar.gz in the bucket
    fsTarget,         \* the files of the sandbox the archive is restored into
    \* ---- the standard output of one agent subprocess and its line buffer
    stdoutWire,       \* the characters the subprocess has printed so far
    stdoutSent,       \* how many of them the sandbox has delivered to onStdout
    stdoutData,       \* data: the chunk of the last onStdout call
    buffer,           \* let buffer: the text after the last newline seen
    handled,          \* the types handleMessage was called with, in order
    \* ---- one session log in the sandbox, watched by MoruSessionWatcher
    jsonlFile,        \* the characters of the file
    processedLines,   \* watchedFiles.get(fullPath).processedLines
    jsonlCalls,       \* the handleFileEvent calls: position, content read, entries left to save
    sessionEvents     \* the lines persisted as SessionEvent rows and emitted, in order

durableVars == <<active, taskStatus, taskSessionId, taskArchive, persisted, emitted,
                 archives, storageConfigured>>
callVars == <<pc, snapSid, snapArchive, sessionId, linesRead, stopped, pollTimer,
              hasApiError, apiErrorMessage, completeResolved, th>>
envVars == <<sandbox, files, agent, agentSid, late, stdinSent>>
budgetVars == <<written, odd, faults, stderrs, nextSid>>
sessionVars == <<durableVars, callVars, envVars, budgetVars>>
streamVars == <<streamChunks, isStreaming, room, connTask, joinPc, historyPc, received,
                published, flagSent>>
interruptVars == <<interrupts, intPc, intResult>>
registryVars == <<watcherRegistered, sandboxCached>>
watcherVars == <<watcher, fsDelivered, pausedIds, resumeMark, registryVars>>
restoreVars == <<restorePc, restoreIds>>
restoreDataVars == <<restoreTarget, restoreFrom, restoreSnap, restoreRead, lastRestore>>
todoVars == <<todos, todoWrites, clock>>
createVars == <<metadata, metaWrites, cpPc, cpMsg, cpData>>
checkpointVars == <<restoreDataVars, todoVars, createVars>>
archiveVars == <<arcPc, fsSource, savePaths, saveExcludes, archive, fsTarget>>
stdoutVars == <<stdoutWire, stdoutSent, stdoutData, buffer, handled>>
jsonlVars == <<jsonlFile, processedLines, jsonlCalls, sessionEvents>>
lineVars == <<stdoutVars, jsonlVars>>
vars == <<sessionVars, streamVars, interruptVars, watcherVars, restoreVars, checkpointVars,
          archiveVars, lineVars>>

\* the steps of agent-session.ts leave the socket server's stream state alone
SessionOnly == UNCHANGED <<streamVars, interruptVars, watcherVars, restoreVars, checkpointVars,
                           archiveVars, lineVars>>
\* and the other way round
StreamOnly == UNCHANGED <<sessionVars, interruptVars, watcherVars, restoreVars, checkpointVars,
                          archiveVars, lineVars>>

\* ------------------------------------------------------------------ values
NoText == [src |-> "none", id |-> 0]
ApiText(id) == [src |-> "api", id |-> id]        \* entry.message.content[0].text
AgentText == [src |-> "agent", id |-> 0]         \* msg.message of session_error
StderrText == [src |-> "stderr", id |-> 0]       \* "Agent failed to start: ..."

LineKinds == {"ok", "apierr", "bad", "blank"}
Line(id, kind) == [id |-> id, kind |-> kind]
EmptyString == Line(0, "blank")                  \* the "" after the last "\n"

Ev(ev, sid, id, text) == [ev |-> ev, sid |-> sid, id |-> id, text |-> text]

IdleThread ==
    [phase |-> "idle", mode |-> "poll", sid |-> NoSid, from |-> 0, i |-> 0,
     lines |-> <<>>, apiErr |-> NoText, msg |-> NoText, saved |-> NoArchive]

NoFiles == [s \in Sids |-> <<>>]

\* ------------------------------------------------------------------ pollFile
\* content.split("\n") of a file of newline-terminated lines
SplitLines(content) == content \o <<EmptyString>>

\* if (!line?.trim()) continue;   (i is the 0-based index of the source)
RECURSIVE SkipBlank(_, _)
SkipBlank(lines, i) ==
    IF i < Len(lines) /\ lines[i + 1].kind = "blank"
    THEN SkipBlank(lines, i + 1)
    ELSE i

\* The for loop of pollFile, run from t.i to its next await (the create of
\* line i) or to the return; JSON.parse throwing leaves through catch {}.
PollLoop(t) ==
    LET j == SkipBlank(t.lines, t.i) IN
    IF j >= Len(t.lines) THEN [t EXCEPT !.phase = "ret", !.i = j]
    ELSE IF t.lines[j + 1].kind = "bad" THEN [t EXCEPT !.phase = "ret", !.i = j]
    ELSE [t EXCEPT !.phase = "create", !.i = j,
                   !.apiErr = IF t.lines[j + 1].kind = "apierr"
                              THEN ApiText(t.lines[j + 1].id) ELSE @]

\* pollFile(taskId, userId, sessionId, sandbox, fromLine) up to its first await
StartPoll(mode, sid, fromLine, msg) ==
    [IdleThread EXCEPT !.phase = "read", !.mode = mode, !.sid = sid,
                       !.from = fromLine, !.i = fromLine, !.msg = msg]

\* the phase that follows the emit of the terminal event
AfterEmit == IF storageConfigured THEN "save" ELSE "kill"

\* the async block of a terminal message once its final poll is over: it keeps
\* the message it was started with and waits for the save or the kill
Teardown(t) == [IdleThread EXCEPT !.phase = AfterEmit, !.mode = t.mode, !.msg = t.msg]

\* What runs when pollFile has returned (t.phase = "ret"), up to the next await:
\* the rest of doPoll, or the rest of the async block of a terminal message.
\* em is the room's event sequence as this step has extended it so far.
PollReturned(c, o, t, em) ==
    LET gotErr == t.apiErr # NoText
        has == IF t.mode # "error" /\ gotErr THEN TRUE ELSE hasApiError[c]
        txt == IF t.mode # "error" /\ gotErr THEN t.apiErr ELSE apiErrorMessage[c]
    IN
    /\ hasApiError' = [hasApiError EXCEPT ![c] = has]
    /\ apiErrorMessage' = [apiErrorMessage EXCEPT ![c] = txt]
    /\ linesRead' = [linesRead EXCEPT ![c] = IF t.mode = "error" THEN @ ELSE t.from]
    /\ CASE t.mode = "poll" /\ late[c] /\ ~stopped[c] ->
              \* handleMessage({type: "session_complete", result: {timed_out: true}})
              /\ stopped' = [stopped EXCEPT ![c] = TRUE]
              /\ pollTimer' = [pollTimer EXCEPT ![c] = FALSE]
              /\ th' = [th EXCEPT ![c][o] = IdleThread,
                                  ![c]["timeout"] =
                                      StartPoll("complete", sessionId[c], t.from, NoText)]
              /\ emitted' = em
         [] t.mode = "poll" /\ ~(late[c] /\ ~stopped[c]) ->
              /\ pollTimer' = [pollTimer EXCEPT ![c] = ~stopped[c]]
              /\ th' = [th EXCEPT ![c][o] = IdleThread]
              /\ emitted' = em
              /\ UNCHANGED stopped
         [] t.mode = "complete" ->
              /\ emitted' = Append(em, IF has
                                       THEN Ev("session-error", sessionId[c], 0, txt)
                                       ELSE Ev("session-complete", sessionId[c], 0, NoText))
              /\ th' = [th EXCEPT ![c][o] = Teardown(t)]
              /\ UNCHANGED <<stopped, pollTimer>>
         [] t.mode = "error" ->
              /\ emitted' = Append(em, Ev("session-error", sessionId[c], 0, t.msg))
              /\ th' = [th EXCEPT ![c][o] = Teardown(t)]
              /\ UNCHANGED <<stopped, pollTimer>>

\* pollFile after an await: either it waits for the next create or it returns
PollAdvance(c, o, t, em) ==
    IF t.phase = "create"
    THEN /\ th' = [th EXCEPT ![c][o] = t]
         /\ emitted' = em
         /\ UNCHANGED <<linesRead, stopped, pollTimer, hasApiError, apiErrorMessage>>
    ELSE PollReturned(c, o, t, em)

\* await sandbox.files.read(path) resolves with the file's content
PollRead(c, o) ==
    LET t == th[c][o] IN
    /\ t.phase = "read"
    /\ sandbox[c] = "alive"
    /\ t.sid # NoSid
    /\ PollAdvance(c, o, PollLoop([t EXCEPT !.lines = SplitLines(files[c][t.sid])]), emitted)
    /\ UNCHANGED <<active, taskStatus, taskSessionId, taskArchive, persisted, archives,
                   storageConfigured, pc, snapSid, snapArchive, sessionId,
                   completeResolved, envVars, budgetVars>>
    /\ SessionOnly

\* await sandbox.files.read(path) rejects: the sandbox is gone, or there is no
\* session id to name the file by; catch {} returns the offset unchanged
PollReadFails(c, o) ==
    LET t == th[c][o] IN
    /\ t.phase = "read"
    /\ sandbox[c] # "alive" \/ t.sid = NoSid
    /\ PollReturned(c, o, [t EXCEPT !.phase = "ret"], emitted)
    /\ UNCHANGED <<active, taskStatus, taskSessionId, taskArchive, persisted, archives,
                   storageConfigured, pc, snapSid, snapArchive, sessionId,
                   completeResolved, envVars, budgetVars>>
    /\ SessionOnly

\* await prisma.sessionEvent.create resolves; emitSessionEntry; fromLine++
PollCreate(c, o) ==
    LET t == th[c][o]
        l == t.lines[t.i + 1]
    IN
    /\ t.phase = "create"
    /\ persisted' = Append(persisted, [sid |-> t.sid, id |-> l.id, kind |-> l.kind])
    /\ PollAdvance(c, o, PollLoop([t EXCEPT !.from = @ + 1, !.i = @ + 1]),
                   Append(emitted, Ev("session-entry", t.sid, l.id, NoText)))
    /\ UNCHANGED <<active, taskStatus, taskSessionId, taskArchive, archives,
                   storageConfigured, pc, snapSid, snapArchive, sessionId,
                   completeResolved, envVars, budgetVars>>
    /\ SessionOnly

\* a pollFile whose catch emitted the entry and stepped over it
PollCreateFailsEmits(c, o) ==
    LET t == th[c][o]
        l == t.lines[t.i + 1]
    IN
    /\ t.phase = "create"
    /\ faults < MaxFaults
    /\ faults' = faults + 1
    /\ PollReturned(c, o, [t EXCEPT !.phase = "ret", !.from = @ + 1],
                    Append(emitted, Ev("session-entry", t.sid, l.id, NoText)))
    /\ UNCHANGED <<active, taskStatus, taskSessionId, taskArchive, persisted, archives,
                   storageConfigured, pc, snapSid, snapArchive, sessionId,
                   completeResolved, envVars, written, odd, stderrs, nextSid>>
    /\ SessionOnly

\* await prisma.sessionEvent.create rejects; catch {} returns
PollCreateFails(c, o) ==
    LET t == th[c][o] IN
    /\ t.phase = "create"
    /\ faults < MaxFaults
    /\ faults' = faults + 1
    /\ PollReturned(c, o, [t EXCEPT !.phase = "ret"], emitted)
    /\ UNCHANGED <<active, taskStatus, taskSessionId, taskArchive, persisted, archives,
                   storageConfigured, pc, snapSid, snapArchive, sessionId,
                   completeResolved, envVars, written, odd, stderrs, nextSid>>
    /\ SessionOnly

\* setTimeout(doPoll, 300) fires: doPoll calls pollFile
TimerFires(c) ==
    /\ pollTimer[c]
    /\ th[c]["regular"].phase = "idle"
    /\ pollTimer' = [pollTimer EXCEPT ![c] = FALSE]
    /\ th' = [th EXCEPT ![c]["regular"] = StartPoll("poll", sessionId[c], linesRead[c], NoText)]
    /\ UNCHANGED <<durableVars, pc, snapSid, snapArchive, sessionId, linesRead, stopped,
                   hasApiError, apiErrorMessage, completeResolved, envVars, budgetVars>>
    /\ SessionOnly

\* ------------------------------------------------------------------ teardown
\* await storage.save(...) resolves with success: a freshly named archive holds
\* /workspace and /home/user/.claude, the session logs among them
SaveSucceeds(c, o) ==
    LET t == th[c][o] IN
    /\ t.phase = "save"
    /\ sandbox[c] = "alive"
    /\ archives' = Append(archives, files[c])
    /\ th' = [th EXCEPT ![c][o] = [t EXCEPT !.phase = "update", !.saved = Len(archives) + 1]]
    /\ UNCHANGED <<active, taskStatus, taskSessionId, taskArchive, persisted, emitted,
                   storageConfigured, pc, snapSid, snapArchive, sessionId, linesRead,
                   stopped, pollTimer, hasApiError, apiErrorMessage, completeResolved,
                   envVars, budgetVars>>
    /\ SessionOnly

\* mutant: the archive identity of a failed save is stored like that of a
\* successful one
SaveFailsStoresArchive(c, o) ==
    LET t == th[c][o] IN
    /\ t.phase = "save"
    /\ sandbox[c] = "alive"
    /\ faults < MaxFaults
    /\ faults' = faults + 1
    /\ th' = [th EXCEPT ![c][o] = [t EXCEPT !.phase = "update", !.saved = Len(archives) + 1]]
    /\ UNCHANGED <<durableVars, pc, snapSid, snapArchive, sessionId, linesRead,
                   stopped, pollTimer, hasApiError, apiErrorMessage, completeResolved,
                   envVars, written, odd, stderrs, nextSid>>
    /\ SessionOnly

\* mutant: a failed save leaves the block without killing the sandbox
SaveFailsSkipsKill(c, o) ==
    LET t == th[c][o] IN
    /\ t.phase = "save"
    /\ sandbox[c] = "alive"
    /\ faults < MaxFaults
    /\ faults' = faults + 1
    /\ th' = [th EXCEPT ![c][o] = [t EXCEPT !.phase = "status"]]
    /\ UNCHANGED <<durableVars, pc, snapSid, snapArchive, sessionId, linesRead,
                   stopped, pollTimer, hasApiError, apiErrorMessage, completeResolved,
                   envVars, written, odd, stderrs, nextSid>>
    /\ SessionOnly

\* storage.save reports success: false (its own catch, or tar failing)
SaveFails(c, o) ==
    LET t == th[c][o] IN
    /\ t.phase = "save"
    /\ sandbox[c] = "alive"
    /\ faults < MaxFaults
    /\ faults' = faults + 1
    /\ th' = [th EXCEPT ![c][o] = [t EXCEPT !.phase = "kill"]]
    /\ UNCHANGED <<durableVars, pc, snapSid, snapArchive, sessionId, linesRead,
                   stopped, pollTimer, hasApiError, apiErrorMessage, completeResolved,
                   envVars, written, odd, stderrs, nextSid>>
    /\ SessionOnly

\* storage.save on a sandbox that another async block has already killed: the
\* tar command cannot run and save reports success: false
SaveWithoutSandbox(c, o) ==
    LET t == th[c][o] IN
    /\ t.phase = "save"
    /\ sandbox[c] # "alive"
    /\ th' = [th EXCEPT ![c][o] = [t EXCEPT !.phase = "kill"]]
    /\ UNCHANGED <<durableVars, pc, snapSid, snapArchive, sessionId, linesRead,
                   stopped, pollTimer, hasApiError, apiErrorMessage, completeResolved,
                   envVars, budgetVars>>
    /\ SessionOnly

\* await prisma.task.update({data: {workspaceArchiveId: saveResult.archiveId}})
UpdateArchive(c, o) ==
    LET t == th[c][o] IN
    /\ t.phase = "update"
    /\ taskArchive' = t.saved
    /\ th' = [th EXCEPT ![c][o] = [t EXCEPT !.phase = "kill", !.saved = NoArchive]]
    /\ UNCHANGED <<active, taskStatus, taskSessionId, persisted, emitted, archives,
                   storageConfigured, pc, snapSid, snapArchive, sessionId, linesRead,
                   stopped, pollTimer, hasApiError, apiErrorMessage, completeResolved,
                   envVars, budgetVars>>
    /\ SessionOnly

\* await sandbox.kill(), in its own try: the subprocess dies with the sandbox
KillSandbox(c, o) ==
    LET t == th[c][o] IN
    /\ t.phase = "kill"
    /\ sandbox' = [sandbox EXCEPT ![c] = "killed"]
    /\ agent' = [agent EXCEPT ![c] = IF @ \in {"running", "started"} THEN "killed" ELSE @]
    /\ th' = [th EXCEPT ![c][o] = [t EXCEPT !.phase = "status"]]
    /\ UNCHANGED <<durableVars, pc, snapSid, snapArchive, sessionId, linesRead,
                   stopped, pollTimer, hasApiError, apiErrorMessage, completeResolved,
                   files, agentSid, late, stdinSent, budgetVars>>
    /\ SessionOnly

\* await updateTaskStatus(...); done()
FinalStatus(c, o) ==
    LET t == th[c][o] IN
    /\ t.phase = "status"
    /\ taskStatus' = IF t.mode = "error" \/ hasApiError[c] THEN "FAILED" ELSE "COMPLETED"
    /\ completeResolved' = [completeResolved EXCEPT ![c] = TRUE]
    /\ th' = [th EXCEPT ![c][o] = [t EXCEPT !.phase = "finished"]]
    /\ UNCHANGED <<active, taskSessionId, taskArchive, persisted, emitted, archives,
                   storageConfigured, pc, snapSid, snapArchive, sessionId, linesRead,
                   stopped, pollTimer, hasApiError, apiErrorMessage,
                   envVars, budgetVars>>
    /\ SessionOnly

\* ------------------------------------------------------------------ handleMessage
\* msg.type === "session_complete" | "session_error": stop the loop and start
\* the async block, which runs to its first await. Constrains stopped',
\* pollTimer', th' and emitted'.
HandleTerminal(c, o, mode, msg) ==
    /\ stopped' = [stopped EXCEPT ![c] = TRUE]
    /\ pollTimer' = [pollTimer EXCEPT ![c] = FALSE]
    /\ IF mode = "error" /\ sessionId[c] = NoSid
       THEN /\ emitted' = Append(emitted, Ev("session-error", NoSid, 0, msg))
            /\ th' = [th EXCEPT ![c][o] =
                          Teardown([IdleThread EXCEPT !.mode = mode, !.msg = msg])]
       ELSE /\ emitted' = emitted
            /\ th' = [th EXCEPT ![c][o] = StartPoll(mode, sessionId[c], linesRead[c], msg)]

\* ------------------------------------------------------------------ sendMessage
\* a caller (the user-message handler or the initiate route) marks the task
\* RUNNING and calls sendMessage, which runs to its first await
SendMessage(c) ==
    /\ pc[c] = "idle"
    /\ c > 1 => pc[c - 1] # "idle"
    /\ taskStatus' = "RUNNING"
    /\ pc' = [pc EXCEPT ![c] = IF active # NoCall THEN "rejected" ELSE "findTask"]
    /\ UNCHANGED <<active, taskSessionId, taskArchive, persisted, emitted, archives,
                   storageConfigured, snapSid, snapArchive, sessionId, linesRead, stopped,
                   pollTimer, hasApiError, apiErrorMessage, completeResolved, th,
                   envVars, budgetVars>>
    /\ SessionOnly

\* await prisma.task.findUnique(...) resolves
FindTask(c) ==
    /\ pc[c] = "findTask"
    /\ snapSid' = [snapSid EXCEPT ![c] = taskSessionId]
    /\ snapArchive' = [snapArchive EXCEPT ![c] = taskArchive]
    /\ pc' = [pc EXCEPT ![c] = "create"]
    /\ UNCHANGED <<durableVars, sessionId, linesRead, stopped, pollTimer, hasApiError,
                   apiErrorMessage, completeResolved, th, envVars, budgetVars>>
    /\ SessionOnly

\* where sendMessage waits once the workspace restore is over (or skipped)
AfterWorkspace(c) == IF snapSid[c] # NoSid THEN "restoreSession" ELSE "run"

\* await Sandbox.create(...) resolves
CreateSandbox(c) ==
    /\ pc[c] = "create"
    /\ sandbox' = [sandbox EXCEPT ![c] = "alive"]
    /\ pc' = [pc EXCEPT ![c] = IF snapArchive[c] # NoArchive /\ storageConfigured
                               THEN "restoreWorkspace" ELSE AfterWorkspace(c)]
    /\ sessionId' = [sessionId EXCEPT ![c] = IF pc'[c] = "restoreWorkspace" THEN @ ELSE snapSid[c]]
    /\ UNCHANGED <<durableVars, snapSid, snapArchive, linesRead, stopped, pollTimer,
                   hasApiError, apiErrorMessage, completeResolved, th,
                   files, agent, agentSid, late, stdinSent, budgetVars>>
    /\ SessionOnly

\* await Sandbox.create(...) rejects: sendMessage rejects
CreateSandboxFails(c) ==
    /\ pc[c] = "create"
    /\ faults < MaxFaults
    /\ faults' = faults + 1
    /\ pc' = [pc EXCEPT ![c] = "threw"]
    /\ UNCHANGED <<durableVars, snapSid, snapArchive, sessionId, linesRead, stopped,
                   pollTimer, hasApiError, apiErrorMessage, completeResolved, th,
                   envVars, written, odd, stderrs, nextSid>>
    /\ SessionOnly

\* await storage.restore(task.workspaceArchiveId, sandbox) resolves with success
RestoreWorkspace(c) ==
    /\ pc[c] = "restoreWorkspace"
    /\ files' = [files EXCEPT ![c] = archives[snapArchive[c]]]
    /\ pc' = [pc EXCEPT ![c] = AfterWorkspace(c)]
    /\ sessionId' = [sessionId EXCEPT ![c] = snapSid[c]]
    /\ UNCHANGED <<durableVars, snapSid, snapArchive, linesRead, stopped, pollTimer,
                   hasApiError, apiErrorMessage, completeResolved, th,
                   sandbox, agent, agentSid, late, stdinSent, budgetVars>>
    /\ SessionOnly

\* mutant: a restore that fails makes sendMessage reject
RestoreWorkspaceFailsAborts(c) ==
    /\ pc[c] = "restoreWorkspace"
    /\ faults < MaxFaults
    /\ faults' = faults + 1
    /\ pc' = [pc EXCEPT ![c] = "threw"]
    /\ UNCHANGED <<durableVars, snapSid, snapArchive, sessionId, linesRead, stopped,
                   pollTimer, hasApiError, apiErrorMessage, completeResolved, th,
                   envVars, written, odd, stderrs, nextSid>>
    /\ SessionOnly

\* storage.restore reports a failure or throws: logged, sendMessage goes on
RestoreWorkspaceFails(c) ==
    /\ pc[c] = "restoreWorkspace"
    /\ faults < MaxFaults
    /\ faults' = faults + 1
    /\ pc' = [pc EXCEPT ![c] = AfterWorkspace(c)]
    /\ sessionId' = [sessionId EXCEPT ![c] = snapSid[c]]
    /\ UNCHANGED <<durableVars, snapSid, snapArchive, linesRead, stopped, pollTimer,
                   hasApiError, apiErrorMessage, completeResolved, th,
                   envVars, written, odd, stderrs, nextSid>>
    /\ SessionOnly

\* entries.map(e => JSON.stringify(e.data)).join("\n") + "\n", as lines
RestoredLines(entries) == [k \in 1..Len(entries) |-> Line(entries[k].id, entries[k].kind)]

\* prisma.sessionEvent.findMany({where: {taskId, sessionId}, orderBy: createdAt})
EventsOf(sid) == SelectSeq(persisted, LAMBDA e : e.sid = sid)

\* linesRead = await restoreSession(taskId, sessionId, sandbox)
RestoreSession(c) ==
    LET entries == EventsOf(snapSid[c]) IN
    /\ pc[c] = "restoreSession"
    /\ files' = [files EXCEPT ![c][snapSid[c]] =
                     IF Len(entries) = 0 THEN @ ELSE RestoredLines(entries)]
    /\ linesRead' = [linesRead EXCEPT ![c] = Len(entries)]
    /\ pc' = [pc EXCEPT ![c] = "run"]
    /\ UNCHANGED <<durableVars, snapSid, snapArchive, sessionId, stopped, pollTimer,
                   hasApiError, apiErrorMessage, completeResolved, th,
                   sandbox, agent, agentSid, late, stdinSent, budgetVars>>
    /\ SessionOnly

\* await sandbox.commands.run("... python3 agent.py", ...) resolves; then
\* active.set(taskId, ...) and the first sendStdin, up to its await
RunAgent(c) ==
    /\ pc[c] = "run"
    /\ agent' = [agent EXCEPT ![c] = "running"]
    /\ active' = c
    /\ stdinSent' = [stdinSent EXCEPT ![c] = Append(@, "process_start")]
    /\ pc' = [pc EXCEPT ![c] = "sendStart"]
    /\ UNCHANGED <<taskStatus, taskSessionId, taskArchive, persisted, emitted, archives,
                   storageConfigured, snapSid, snapArchive, sessionId, linesRead, stopped,
                   pollTimer, hasApiError, apiErrorMessage, completeResolved, th,
                   sandbox, files, agentSid, late, budgetVars>>
    /\ SessionOnly

\* mutant: the registration moved in front of the start of the subprocess
RunAgentFailsRegistered(c) ==
    /\ pc[c] = "run"
    /\ faults < MaxFaults
    /\ faults' = faults + 1
    /\ active' = c
    /\ pc' = [pc EXCEPT ![c] = "threw"]
    /\ UNCHANGED <<taskStatus, taskSessionId, taskArchive, persisted, emitted, archives,
                   storageConfigured, snapSid, snapArchive, sessionId, linesRead, stopped,
                   pollTimer, hasApiError, apiErrorMessage, completeResolved, th,
                   envVars, written, odd, stderrs, nextSid>>
    /\ SessionOnly

\* await sandbox.commands.run(...) rejects: sendMessage rejects
RunAgentFails(c) ==
    /\ pc[c] = "run"
    /\ faults < MaxFaults
    /\ faults' = faults + 1
    /\ pc' = [pc EXCEPT ![c] = "threw"]
    /\ UNCHANGED <<durableVars, snapSid, snapArchive, sessionId, linesRead, stopped,
                   pollTimer, hasApiError, apiErrorMessage, completeResolved, th,
                   envVars, written, odd, stderrs, nextSid>>
    /\ SessionOnly

\* finally { active.delete(taskId) }
Finally == NoCall

\* await send({type: "process_start"}) resolves; the second send is issued
SendStart(c) ==
    /\ pc[c] = "sendStart"
    /\ stdinSent' = [stdinSent EXCEPT ![c] = Append(@, "session_message")]
    /\ pc' = [pc EXCEPT ![c] = "sendMsg"]
    /\ UNCHANGED <<durableVars, snapSid, snapArchive, sessionId, linesRead, stopped,
                   pollTimer, hasApiError, apiErrorMessage, completeResolved, th,
                   sandbox, files, agent, agentSid, late, budgetVars>>
    /\ SessionOnly

\* await send({type: "session_message"}) resolves; sendMessage awaits complete
SendText(c) ==
    /\ pc[c] = "sendMsg"
    /\ pc' = [pc EXCEPT ![c] = "awaiting"]
    /\ UNCHANGED <<durableVars, snapSid, snapArchive, sessionId, linesRead, stopped,
                   pollTimer, hasApiError, apiErrorMessage, completeResolved, th,
                   envVars, budgetVars>>
    /\ SessionOnly

\* mutant: the registry entry removed after await complete, not in a finally
SendFailsNoCleanup(c) ==
    /\ pc[c] \in {"sendStart", "sendMsg"}
    /\ faults < MaxFaults
    /\ faults' = faults + 1
    /\ pc' = [pc EXCEPT ![c] = "threw"]
    /\ UNCHANGED <<durableVars, snapSid, snapArchive, sessionId, linesRead, stopped,
                   pollTimer, hasApiError, apiErrorMessage, completeResolved, th,
                   envVars, written, odd, stderrs, nextSid>>
    /\ SessionOnly

\* a sendStdin rejects: the finally block runs and sendMessage rejects
SendFails(c) ==
    /\ pc[c] \in {"sendStart", "sendMsg"}
    /\ faults < MaxFaults
    /\ faults' = faults + 1
    /\ active' = Finally
    /\ pc' = [pc EXCEPT ![c] = "threw"]
    /\ UNCHANGED <<taskStatus, taskSessionId, taskArchive, persisted, emitted, archives,
                   storageConfigured, snapSid, snapArchive, sessionId, linesRead, stopped,
                   pollTimer, hasApiError, apiErrorMessage, completeResolved, th,
                   envVars, written, odd, stderrs, nextSid>>
    /\ SessionOnly

\* await complete resolves; the finally block runs and sendMessage returns
Return(c) ==
    /\ pc[c] = "awaiting"
    /\ completeResolved[c]
    /\ active' = Finally
    /\ pc' = [pc EXCEPT ![c] = "returned"]
    /\ UNCHANGED <<taskStatus, taskSessionId, taskArchive, persisted, emitted, archives,
                   storageConfigured, snapSid, snapArchive, sessionId, linesRead, stopped,
                   pollTimer, hasApiError, apiErrorMessage, completeResolved, th,
                   envVars, budgetVars>>
    /\ SessionOnly

\* ------------------------------------------------------------------ interrupt
\* mutant: interrupt also calls the stop() of the registry entry
InterruptStopsPoller ==
    /\ intPc = "idle"
    /\ interrupts < MaxInterrupts
    /\ interrupts' = interrupts + 1
    /\ IF active = NoCall
       THEN /\ intPc' = "idle"
            /\ intResult' = "noop"
            /\ UNCHANGED <<stdinSent, stopped, pollTimer>>
       ELSE /\ intPc' = "sending"
            /\ intResult' = "none"
            /\ stdinSent' = [stdinSent EXCEPT ![active] = Append(@, "session_interrupt")]
            /\ stopped' = [stopped EXCEPT ![active] = TRUE]
            /\ pollTimer' = [pollTimer EXCEPT ![active] = FALSE]
    /\ UNCHANGED <<durableVars, pc, snapSid, snapArchive, sessionId, linesRead,
                   hasApiError, apiErrorMessage, completeResolved, th,
                   sandbox, files, agent, agentSid, late, budgetVars, streamVars,
                   watcherVars, restoreVars, checkpointVars, archiveVars, lineVars>>

\* interrupt(taskId) up to its await: without a registry entry it returns, with
\* one it writes session_interrupt to the stdin of the registered subprocess
Interrupt ==
    /\ intPc = "idle"
    /\ interrupts < MaxInterrupts
    /\ interrupts' = interrupts + 1
    /\ IF active = NoCall
       THEN /\ intPc' = "idle"
            /\ intResult' = "noop"
            /\ UNCHANGED stdinSent
       ELSE /\ intPc' = "sending"
            /\ intResult' = "none"
            /\ stdinSent' = [stdinSent EXCEPT ![active] = Append(@, "session_interrupt")]
    /\ UNCHANGED <<durableVars, callVars, sandbox, files, agent, agentSid, late,
                   budgetVars, streamVars, watcherVars, restoreVars, checkpointVars, archiveVars, lineVars>>

\* await sendStdin(...) resolves: interrupt returns
InterruptSent ==
    /\ intPc = "sending"
    /\ intPc' = "idle"
    /\ intResult' = "sent"
    /\ UNCHANGED <<sessionVars, streamVars, interrupts, watcherVars, restoreVars,
                   checkpointVars, archiveVars, lineVars>>

\* await sendStdin(...) rejects: interrupt rejects
InterruptFails ==
    /\ intPc = "sending"
    /\ faults < MaxFaults
    /\ faults' = faults + 1
    /\ intPc' = "idle"
    /\ intResult' = "threw"
    /\ UNCHANGED <<durableVars, callVars, envVars, written, odd, stderrs, nextSid,
                   streamVars, interrupts, watcherVars, restoreVars, checkpointVars, archiveVars, lineVars>>

InitInterrupt ==
    /\ interrupts = 0
    /\ intPc = "idle"
    /\ intResult = "none"

\* ------------------------------------------------------------------ the agent
\* The subprocess and the clock are the environment. The agent follows the
\* control protocol: it reports session_started once, after session_message was
\* written to its stdin, then writes log lines, then reports one terminal
\* message; it may also die silently or print to stderr at any time.
AgentAlive(c) == sandbox[c] = "alive" /\ agent[c] \in {"running", "started"}

\* onStdout parses {"type": "session_started", "session_id": sid}
AgentSessionStarted(c, sid) ==
    /\ AgentAlive(c)
    /\ agent[c] = "running"
    /\ pc[c] \in {"sendMsg", "awaiting"}
    /\ \/ sid = snapSid[c] /\ sid # NoSid /\ UNCHANGED nextSid
       \/ sid = nextSid /\ sid \in Sids /\ nextSid' = nextSid + 1
    /\ agent' = [agent EXCEPT ![c] = "started"]
    /\ agentSid' = [agentSid EXCEPT ![c] = sid]
    /\ sessionId' = [sessionId EXCEPT ![c] = sid]
    /\ taskSessionId' = sid
    /\ emitted' = Append(emitted, Ev("session-started", sid, 0, NoText))
    /\ th' = [th EXCEPT ![c]["regular"] = StartPoll("poll", sid, linesRead[c], NoText)]
    /\ UNCHANGED <<active, taskStatus, taskArchive, persisted, archives, storageConfigured,
                   pc, snapSid, snapArchive, linesRead, stopped, pollTimer, hasApiError,
                   apiErrorMessage, completeResolved, sandbox, files, late, stdinSent,
                   written, odd, faults, stderrs>>
    /\ SessionOnly

\* the agent appends one line to its session log
AgentWrites(c, kind) ==
    /\ AgentAlive(c)
    /\ agent[c] = "started"
    /\ written < MaxLines
    /\ kind # "ok" => odd < MaxOdd
    /\ written' = written + 1
    /\ odd' = IF kind = "ok" THEN odd ELSE odd + 1
    /\ files' = [files EXCEPT ![c][agentSid[c]] = Append(@, Line(written + 1, kind))]
    /\ UNCHANGED <<durableVars, callVars, sandbox, agent, agentSid, late, stdinSent,
                   faults, stderrs, nextSid>>
    /\ SessionOnly

\* onStdout parses {"type": "session_complete", ...}
AgentSessionComplete(c) ==
    /\ AgentAlive(c)
    /\ agent[c] = "started"
    /\ agent' = [agent EXCEPT ![c] = "finished"]
    /\ HandleTerminal(c, "agent", "complete", NoText)
    /\ UNCHANGED <<active, taskStatus, taskSessionId, taskArchive, persisted, archives,
                   storageConfigured, pc, snapSid, snapArchive, sessionId, linesRead,
                   hasApiError, apiErrorMessage, completeResolved,
                   sandbox, files, agentSid, late, stdinSent, budgetVars>>
    /\ SessionOnly

\* onStdout parses {"type": "session_error", "message": ...}
AgentSessionError(c) ==
    /\ AgentAlive(c)
    /\ agent' = [agent EXCEPT ![c] = "finished"]
    /\ HandleTerminal(c, "agent", "error", AgentText)
    /\ UNCHANGED <<active, taskStatus, taskSessionId, taskArchive, persisted, archives,
                   storageConfigured, pc, snapSid, snapArchive, sessionId, linesRead,
                   hasApiError, apiErrorMessage, completeResolved,
                   sandbox, files, agentSid, late, stdinSent, budgetVars>>
    /\ SessionOnly

\* onStderr gets data that includes "No such file or directory" or "not found"
AgentStderr(c) ==
    /\ sandbox[c] = "alive"
    /\ agent[c] \in {"running", "started", "finished"}
    /\ stderrs < MaxStderr
    /\ th[c]["stderr"].phase = "idle"
    /\ stderrs' = stderrs + 1
    /\ HandleTerminal(c, "stderr", "error", StderrText)
    /\ UNCHANGED <<active, taskStatus, taskSessionId, taskArchive, persisted, archives,
                   storageConfigured, pc, snapSid, snapArchive, sessionId, linesRead,
                   hasApiError, apiErrorMessage, completeResolved,
                   envVars, written, odd, faults, nextSid>>
    /\ SessionOnly

\* the subprocess exits, or its stream ends, without a terminal message: no
\* callback of sendMessage observes it
AgentExits(c) ==
    /\ AgentAlive(c)
    /\ agent' = [agent EXCEPT ![c] = "exited"]
    /\ UNCHANGED <<durableVars, callVars, sandbox, files, agentSid, late, stdinSent,
                   budgetVars>>
    /\ SessionOnly

\* the wall clock passes sessionStartTime + MAX_SESSION_TIMEOUT_MS
ClockPassesTimeout(c) ==
    /\ pc[c] \in {"sendStart", "sendMsg", "awaiting"}
    /\ ~late[c]
    /\ late' = [late EXCEPT ![c] = TRUE]
    /\ UNCHANGED <<durableVars, callVars, sandbox, files, agent, agentSid, stdinSent,
                   budgetVars>>
    /\ SessionOnly

\* ------------------------------------------------------------------ socket server
\* The stream buffer of the task and the fan-out to its room (part_009).
Viewers == 1..MaxViewers
Terminal == 0                    \* the chunk of type "complete"

\* io.to(`task-${taskId}`).emit("stream-chunk", chunk)
Deliver(k) == [v \in Viewers |-> IF v \in room THEN Append(received[v], k) ELSE received[v]]

\* emitStreamChunk(chunk, taskId) with a chunk that is neither complete nor error
EmitStreamChunk ==
    /\ Len(published) < MaxChunks
    /\ Terminal \notin {published[k] : k \in 1..Len(published)}
    /\ LET k == Len(published) + 1 IN
       /\ streamChunks' = Append(streamChunks, k)
       /\ received' = Deliver(k)
       /\ published' = Append(published, k)
    /\ UNCHANGED <<isStreaming, room, connTask, joinPc, historyPc, flagSent>>
    /\ StreamOnly

\* emitStreamChunk with the chunk of type "complete": not stored; endStream
EmitCompleteChunk ==
    /\ published # <<>>
    /\ Terminal \notin {published[k] : k \in 1..Len(published)}
    /\ received' = Deliver(Terminal)
    /\ published' = Append(published, Terminal)
    /\ isStreaming' = FALSE
    /\ UNCHANGED <<streamChunks, room, connTask, joinPc, historyPc, flagSent>>
    /\ StreamOnly

\* socket.on("join-task"): the handler starts and awaits verifyTaskAccess
JoinTask(v) ==
    /\ joinPc[v] = "idle"
    /\ v > 1 => joinPc[v - 1] # "idle"
    /\ joinPc' = [joinPc EXCEPT ![v] = "verify"]
    /\ UNCHANGED <<streamChunks, isStreaming, room, connTask, historyPc, received, published,
                   flagSent>>
    /\ StreamOnly

\* verifyTaskAccess resolves; socket.join(room) puts the socket into the room
JoinRoom(v) ==
    /\ joinPc[v] = "verify"
    /\ room' = room \cup {v}
    /\ joinPc' = [joinPc EXCEPT ![v] = "join"]
    /\ UNCHANGED <<streamChunks, isStreaming, connTask, historyPc, received, published,
                   flagSent>>
    /\ StreamOnly

\* await socket.join resolves; state.taskId = data.taskId
JoinDone(v) ==
    /\ joinPc[v] = "join"
    /\ connTask' = [connTask EXCEPT ![v] = TRUE]
    /\ joinPc' = [joinPc EXCEPT ![v] = "done"]
    /\ UNCHANGED <<streamChunks, isStreaming, room, historyPc, received, published,
                   flagSent>>
    /\ StreamOnly

\* the isStreaming field of a stream-state event
Flag(b) == IF b THEN "true" ELSE "false"

\* io.on("connection") for a socket id that connects again: the stream-state
\* event it is sent carries isStreaming: true only when the connection's task
\* has a stream state that is streaming and holds chunks
Reconnect(v) ==
    /\ flagSent[v] = "none"
    /\ flagSent' = [flagSent EXCEPT ![v] =
                        Flag(connTask[v] /\ isStreaming /\ streamChunks # <<>>)]
    /\ UNCHANGED <<streamChunks, isStreaming, room, connTask, joinPc, historyPc, received,
                   published>>
    /\ StreamOnly

\* socket.on("request-history"), sent by a socket that has asked to join: the
\* handler starts and awaits verifyTaskAccess
RequestHistory(v) ==
    /\ historyPc[v] = "idle"
    /\ joinPc[v] # "idle"
    /\ historyPc' = [historyPc EXCEPT ![v] = "verify"]
    /\ UNCHANGED <<streamChunks, isStreaming, room, connTask, joinPc, received, published,
                   flagSent>>
    /\ StreamOnly

\* the chunks a "stream-state" event of request-history carries: none is sent
\* when the buffer is empty
Replay == streamChunks

\* verifyTaskAccess resolves; stream-state and history-complete are sent
SendHistory(v) ==
    /\ historyPc[v] = "verify"
    /\ connTask' = [connTask EXCEPT ![v] = TRUE]
    /\ received' = [received EXCEPT ![v] = @ \o Replay]
    /\ historyPc' = [historyPc EXCEPT ![v] = "done"]
    /\ flagSent' = [flagSent EXCEPT ![v] = IF streamChunks = <<>> THEN @ ELSE Flag(isStreaming)]
    /\ UNCHANGED <<streamChunks, isStreaming, room, joinPc, published>>
    /\ StreamOnly

InitStream ==
    /\ streamChunks = <<>>
    /\ isStreaming = FALSE
    /\ room = {}
    /\ connTask = [v \in Viewers |-> FALSE]
    /\ joinPc = [v \in Viewers |-> "idle"]
    /\ historyPc = [v \in Viewers |-> "idle"]
    /\ received = [v \in Viewers |-> <<>>]
    /\ published = <<>>
    /\ flagSent = [v \in Viewers |-> "none"]

\* Viewers joining the room and asking for the stream state while chunks are
\* published.
StreamNext ==
    \/ EmitStreamChunk
    \/ EmitCompleteChunk
    \/ \E v \in Viewers :
          JoinTask(v) \/ JoinRoom(v) \/ JoinDone(v) \/ RequestHistory(v) \/ SendHistory(v)

\* ------------------------------------------------------------------ filesystem watcher
\* MoruFilesystemWatcher (part_011) for the task. A raw event is identified by
\* its number in the order of delivery; path 0 stands for a path that
\* shouldIgnoreFile rejects.
IgnoredPath == 0
Paths == 1..MaxPaths

\* new MoruFilesystemWatcher(taskId) after startWatching
NewWatcher ==
    [isPaused |-> FALSE, changeBuffer |-> <<>>, flushTimer |-> FALSE, timers |-> 0,
     watchHandle |-> "on"]

\* this.changeBuffer.set(filePath, changeEvent): a Map keeps the position of a
\* key it already holds
BufferSet(buf, path, id) ==
    IF \E k \in 1..Len(buf) : buf[k].path = path
    THEN [k \in 1..Len(buf) |-> IF buf[k].path = path THEN [path |-> path, id |-> id] ELSE buf[k]]
    ELSE Append(buf, [path |-> path, id |-> id])

\* if (this.flushTimer) { clearTimeout(this.flushTimer); this.flushTimer = null }
clearTimeout(w) ==
    IF w.flushTimer THEN [w EXCEPT !.flushTimer = FALSE, !.timers = @ - 1] ELSE w

\* a handleFileChange that arms a timer for every event
scheduleAlways(w) == [w EXCEPT !.flushTimer = TRUE, !.timers = @ + 1]

\* if (!this.flushTimer) this.flushTimer = setTimeout(() => this.flushChanges(), debounceMs)
schedule(w) ==
    IF w.flushTimer THEN w ELSE [w EXCEPT !.flushTimer = TRUE, !.timers = @ + 1]

\* mutant: pause() that only sets the flag
pauseKeepsBuffer(w) == [w EXCEPT !.isPaused = TRUE]

\* pause()
pause(w) ==
    IF ~w.isPaused
    THEN [clearTimeout(w) EXCEPT !.isPaused = TRUE, !.changeBuffer = <<>>]
    ELSE w

\* resume()
resume(w) ==
    IF w.isPaused
    THEN [w EXCEPT !.isPaused = FALSE, !.changeBuffer = <<>>]
    ELSE w

\* the watcher flushChanges() leaves behind
flushChanges(w) == [w EXCEPT !.changeBuffer = <<>>, !.flushTimer = FALSE]

\* the changes flushChanges() hands to emitStreamChunk, in order
Flushed(w) ==
    IF w.isPaused THEN <<>> ELSE [k \in 1..Len(w.changeBuffer) |-> w.changeBuffer[k].id]

\* emitStreamChunk for each chunk of ks: stored, and sent to the room
EmitChunks(ks) ==
    /\ streamChunks' = streamChunks \o ks
    /\ published' = published \o ks
    /\ received' = [v \in Viewers |-> IF v \in room THEN received[v] \o ks ELSE received[v]]
    /\ UNCHANGED <<isStreaming, room, connTask, joinPc, historyPc, flagSent>>

\* some restoreCheckpoint call is between its pause step and its resume step
RestoreWindowOpen ==
    \E r \in DOMAIN restorePc :
        restorePc[r] \in {"todos", "settle", "recompute", "restart", "wait"}

\* the watchDir callback: handleFileChange(event)
HandleFileChange(path) ==
    LET id == fsDelivered + 1 IN
    /\ watcher.watchHandle # "off"
    /\ fsDelivered < MaxFsEvents
    /\ fsDelivered' = id
    /\ pausedIds' = IF watcher.isPaused THEN pausedIds \cup {id} ELSE pausedIds
    /\ restoreIds' = IF RestoreWindowOpen THEN restoreIds \cup {id} ELSE restoreIds
    /\ watcher' = IF watcher.isPaused \/ path = IgnoredPath
                  THEN watcher
                  ELSE schedule([watcher EXCEPT !.changeBuffer = BufferSet(@, path, id)])
    /\ UNCHANGED <<sessionVars, streamVars, interruptVars, resumeMark, registryVars,
                   restorePc,
                   checkpointVars, archiveVars, lineVars>>

\* the debounce timer fires: flushChanges()
FlushTimerFires ==
    /\ watcher.timers > 0
    /\ watcher' = [flushChanges(watcher) EXCEPT !.timers = @ - 1]
    /\ EmitChunks(Flushed(watcher))
    /\ UNCHANGED <<sessionVars, interruptVars, fsDelivered, pausedIds, registryVars, resumeMark,
                   restoreVars, checkpointVars, archiveVars, lineVars>>

\* stop() up to its await of watchHandle.stop()
StopBegins ==
    /\ watcher.watchHandle = "on"
    /\ watcher' = [watcher EXCEPT !.watchHandle = "stopping"]
    /\ UNCHANGED <<sessionVars, streamVars, interruptVars, fsDelivered, pausedIds, registryVars,
                   resumeMark, restoreVars, checkpointVars, archiveVars, lineVars>>

\* watchHandle.stop() resolves: the handle is dropped and a pending flush is
\* made at once
StopEnds ==
    /\ watcher.watchHandle = "stopping"
    /\ watcher' = IF watcher.flushTimer
                  THEN [flushChanges(clearTimeout(watcher)) EXCEPT !.watchHandle = "off"]
                  ELSE [watcher EXCEPT !.watchHandle = "off"]
    /\ EmitChunks(IF watcher.flushTimer THEN Flushed(watcher) ELSE <<>>)
    /\ UNCHANGED <<sessionVars, interruptVars, fsDelivered, pausedIds, registryVars, resumeMark,
                   restoreVars, checkpointVars, archiveVars, lineVars>>

\* a caller pauses the watcher
Pause ==
    /\ ~watcher.isPaused
    /\ watcher' = pause(watcher)
    /\ UNCHANGED <<sessionVars, streamVars, interruptVars, fsDelivered, pausedIds, registryVars,
                   resumeMark, restoreVars, checkpointVars, archiveVars, lineVars>>

\* a caller resumes the watcher
ResumeWatcher ==
    /\ watcher.isPaused
    /\ watcher' = resume(watcher)
    /\ resumeMark' = fsDelivered
    /\ UNCHANGED <<sessionVars, streamVars, interruptVars, fsDelivered, pausedIds, registryVars,
                   restoreVars, checkpointVars, archiveVars, lineVars>>

InitWatcher ==
    /\ watcher = NewWatcher
    /\ fsDelivered = 0
    /\ pausedIds = {}
    /\ resumeMark = 0
    /\ watcherRegistered = TRUE
    /\ sandboxCached = TRUE

InitRestore ==
    /\ restorePc = [r \in 1..MaxRestores |-> "idle"]
    /\ restoreIds = {}

\* ------------------------------------------------------------------ todos and checkpoints
\* The rows checkpoint-service.ts works on. A chat message is identified by
\* its sequence number; the first and the last are the user's, those in
\* between the assistant's.
\* A time is its count of milliseconds, which is what an ISO string written
\* into the message metadata and read back by the database carries. A todo's
\* createdAt is left out: it is written once and copied with the row.
Messages == 1..MaxMessages
NoMessage == 0
Targets == {NoMessage} \cup Messages
Contents == 1..MaxContents
Checkpoints == 1..MaxCheckpoints

Role(m) == IF m \in {1, MaxMessages} THEN "USER" ELSE "ASSISTANT"

\* metadata without a checkpoint key
NoCheckpoint == [exists |-> FALSE, todoSnapshot |-> <<>>, createdAt |-> 0]

\* orderBy: { sequence: "asc" }
RECURSIVE orderBySequence(_)
orderBySequence(rows) ==
    IF rows = {} THEN <<>>
    ELSE LET first == CHOOSE t \in rows : \A u \in rows : t.sequence <= u.sequence
         IN <<first>> \o orderBySequence(rows \ {first})

\* getTodoSnapshot(taskId)
getTodoSnapshot == orderBySequence(todos)

\* mutant: a restore that recreates the snapshot without deleting first
restoreTodoStateNoDelete(snapshot) ==
    todos \cup {[snapshot[i] EXCEPT !.updatedAt = clock] : i \in 1..Len(snapshot)}

\* the todo table restoreTodoState(taskId, snapshot) commits: deleteMany, then
\* createMany of the snapshot with updatedAt: new Date()
restoreTodoState(snapshot) ==
    {[snapshot[i] EXCEPT !.updatedAt = clock] : i \in 1..Len(snapshot)}

\* mutant: the lookup with sequence: { lte: ... }
findCheckpointMessageAtOrBefore(targetMessageId) ==
    IF targetMessageId \notin Messages THEN NoMessage
    ELSE LET found == {m \in Messages : /\ Role(m) = "ASSISTANT"
                                        /\ m <= targetMessageId
                                        /\ metadata[m].exists}
         IN IF found = {} THEN NoMessage ELSE CHOOSE m \in found : \A n \in found : n <= m

\* findCheckpointMessage(taskId, targetMessageId): NoMessage stands for null
findCheckpointMessage(targetMessageId) ==
    IF targetMessageId \notin Messages THEN NoMessage
    ELSE LET found == {m \in Messages : /\ Role(m) = "ASSISTANT"
                                        /\ m < targetMessageId
                                        /\ metadata[m].exists}
         IN IF found = {} THEN NoMessage ELSE CHOOSE m \in found : \A n \in found : n <= m

\* a millisecond passes
Tick ==
    /\ clock < MaxClock
    /\ clock' = clock + 1
    /\ UNCHANGED <<sessionVars, streamVars, interruptVars, watcherVars, restoreVars,
                   restoreDataVars, todos, todoWrites, createVars, archiveVars, lineVars>>

\* the todo tool appends a todo
TodoAdd(content) ==
    /\ todoWrites < MaxTodoWrites
    /\ todoWrites' = todoWrites + 1
    /\ todos' = todos \cup {[id |-> todoWrites + 1, content |-> content, status |-> "PENDING",
                             sequence |-> Cardinality(todos), updatedAt |-> clock]}
    /\ UNCHANGED <<sessionVars, streamVars, interruptVars, watcherVars, restoreVars,
                   restoreDataVars, clock, createVars, archiveVars, lineVars>>

\* the todo tool completes a todo
TodoUpdate(t) ==
    /\ todoWrites < MaxTodoWrites
    /\ t.status = "PENDING"
    /\ todoWrites' = todoWrites + 1
    /\ todos' = (todos \ {t}) \cup {[t EXCEPT !.status = "COMPLETED", !.updatedAt = clock]}
    /\ UNCHANGED <<sessionVars, streamVars, interruptVars, watcherVars, restoreVars,
                   restoreDataVars, clock, createVars, archiveVars, lineVars>>

\* createCheckpoint(taskId, messageId) up to its first await
createCheckpoint(k, messageId) ==
    /\ cpPc[k] = "idle"
    /\ k > 1 => cpPc[k - 1] # "idle"
    /\ cpPc' = [cpPc EXCEPT ![k] = "snapshot"]
    /\ cpMsg' = [cpMsg EXCEPT ![k] = messageId]
    /\ UNCHANGED <<sessionVars, streamVars, interruptVars, watcherVars, restoreVars,
                   restoreDataVars, todoVars, metadata, metaWrites, cpData, archiveVars, lineVars>>

\* getTodoSnapshot resolves; chatMessage.findUnique is awaited
CheckpointSnapshot(k) ==
    /\ cpPc[k] = "snapshot"
    /\ cpData' = [cpData EXCEPT ![k] = [exists |-> TRUE, todoSnapshot |-> getTodoSnapshot,
                                        createdAt |-> 0]]
    /\ cpPc' = [cpPc EXCEPT ![k] = "read"]
    /\ UNCHANGED <<sessionVars, streamVars, interruptVars, watcherVars, restoreVars,
                   restoreDataVars, todoVars, metadata, metaWrites, cpMsg, archiveVars, lineVars>>

\* findUnique resolves; checkpointData is built; chatMessage.update is awaited
CheckpointRead(k) ==
    /\ cpPc[k] = "read"
    /\ cpData' = [cpData EXCEPT ![k].createdAt = clock]
    /\ cpPc' = [cpPc EXCEPT ![k] = "update"]
    /\ UNCHANGED <<sessionVars, streamVars, interruptVars, watcherVars, restoreVars,
                   restoreDataVars, todoVars, metadata, metaWrites, cpMsg, archiveVars, lineVars>>

\* chatMessage.update resolves; createCheckpoint returns
CheckpointUpdate(k) ==
    /\ cpPc[k] = "update"
    /\ metadata' = [metadata EXCEPT ![cpMsg[k]] = cpData[k]]
    /\ metaWrites' = metaWrites + 1
    /\ cpData' = [cpData EXCEPT ![k] = NoCheckpoint]
    /\ cpMsg' = [cpMsg EXCEPT ![k] = NoMessage]
    /\ cpPc' = [cpPc EXCEPT ![k] = "done"]
    /\ UNCHANGED <<sessionVars, streamVars, interruptVars, watcherVars, restoreVars,
                   restoreDataVars, todoVars, archiveVars, lineVars>>

\* mutant: a createCheckpoint without its try/catch
CheckpointFailsThrows(k) ==
    /\ cpPc[k] \in {"snapshot", "read", "update"}
    /\ faults < MaxFaults
    /\ faults' = faults + 1
    /\ cpData' = [cpData EXCEPT ![k] = NoCheckpoint]
    /\ cpMsg' = [cpMsg EXCEPT ![k] = NoMessage]
    /\ cpPc' = [cpPc EXCEPT ![k] = "threw"]
    /\ UNCHANGED <<durableVars, callVars, envVars, written, odd, stderrs, nextSid,
                   streamVars, interruptVars, watcherVars, restoreVars,
                   restoreDataVars, todoVars, metadata, metaWrites, archiveVars, lineVars>>

\* one of the three database calls rejects: the catch of createCheckpoint logs
\* and the call returns
CheckpointFails(k) ==
    /\ cpPc[k] \in {"snapshot", "read", "update"}
    /\ faults < MaxFaults
    /\ faults' = faults + 1
    /\ cpData' = [cpData EXCEPT ![k] = NoCheckpoint]
    /\ cpMsg' = [cpMsg EXCEPT ![k] = NoMessage]
    /\ cpPc' = [cpPc EXCEPT ![k] = "failed"]
    /\ UNCHANGED <<durableVars, callVars, envVars, written, odd, stderrs, nextSid,
                   streamVars, interruptVars, watcherVars, restoreVars,
                   restoreDataVars, todoVars, metadata, metaWrites, archiveVars, lineVars>>

\* what a restore call holds before it starts and after it has returned
RestoreReturns(r) ==
    /\ restoreTarget' = [restoreTarget EXCEPT ![r] = NoMessage]
    /\ restoreFrom' = [restoreFrom EXCEPT ![r] = NoMessage]
    /\ restoreSnap' = [restoreSnap EXCEPT ![r] = <<>>]
    /\ restoreRead' = [restoreRead EXCEPT ![r] = 0]

\* id, content, status and sequence of the rows of a todo list
TodoFields(list) ==
    [i \in 1..Len(list) |-> [id |-> list[i].id, content |-> list[i].content,
                             status |-> list[i].status, sequence |-> list[i].sequence]]

NoRestore == [target |-> NoMessage, read |-> 0 - 1, list |-> <<>>]

InitCheckpoint ==
    /\ restoreTarget = [r \in 1..MaxRestores |-> NoMessage]
    /\ restoreFrom = [r \in 1..MaxRestores |-> NoMessage]
    /\ restoreSnap = [r \in 1..MaxRestores |-> <<>>]
    /\ restoreRead = [r \in 1..MaxRestores |-> 0]
    /\ lastRestore = NoRestore
    /\ todos = {}
    /\ todoWrites = 0
    /\ clock = 0
    /\ metadata = [m \in Messages |-> NoCheckpoint]
    /\ metaWrites = 0
    /\ cpPc = [k \in Checkpoints |-> "idle"]
    /\ cpMsg = [k \in Checkpoints |-> NoMessage]
    /\ cpData = [k \in Checkpoints |-> NoCheckpoint]

\* ------------------------------------------------------------------ checkpoint restore
\* restoreCheckpoint of checkpoint-service.ts; restoring to a found checkpoint
\* and restoring to the initial state take the same steps.
Restores == 1..MaxRestores
TodoUpdateChunk == 0 - 1         \* the chunk of type "todo-update"
FsOverrideChunk == 0 - 2         \* the chunk of type "fs-override"

\* restoreCheckpoint(taskId, targetMessageId) up to its first await
restoreCheckpoint(r, targetMessageId) ==
    /\ restorePc[r] = "idle"
    /\ r > 1 => restorePc[r - 1] # "idle"
    /\ restorePc' = [restorePc EXCEPT ![r] = "find"]
    /\ restoreTarget' = [restoreTarget EXCEPT ![r] = targetMessageId]
    /\ UNCHANGED <<sessionVars, streamVars, interruptVars, watcherVars, restoreIds,
                   restoreFrom, restoreSnap, restoreRead, lastRestore, todoVars, createVars, archiveVars, lineVars>>

\* a restore to the initial state is asked for
RestoreBegins(r) == restoreCheckpoint(r, NoMessage)

\* a restore that goes on to the todos without pausing the watcher
RestoreWithoutPause(r) ==
    LET found == findCheckpointMessage(restoreTarget[r]) IN
    /\ restorePc[r] = "find"
    /\ restoreFrom' = [restoreFrom EXCEPT ![r] = found]
    /\ restoreSnap' = [restoreSnap EXCEPT ![r] =
                          IF found = NoMessage THEN <<>> ELSE metadata[found].todoSnapshot]
    /\ restoreRead' = [restoreRead EXCEPT ![r] = metaWrites]
    /\ watcher' = watcher
    /\ restorePc' = [restorePc EXCEPT ![r] = "todos"]
    /\ UNCHANGED <<sessionVars, streamVars, interruptVars, fsDelivered, pausedIds, registryVars,
                   resumeMark, restoreIds, restoreTarget, lastRestore, todoVars, createVars, archiveVars, lineVars>>

\* findCheckpointMessage resolves; pauseFilesystemWatcher; restoreTodoState is
\* called with the snapshot found, or with [] when there is none
RestorePauses(r) ==
    LET found == findCheckpointMessage(restoreTarget[r]) IN
    /\ restorePc[r] = "find"
    /\ restoreFrom' = [restoreFrom EXCEPT ![r] = found]
    /\ restoreSnap' = [restoreSnap EXCEPT ![r] =
                          IF found = NoMessage THEN <<>> ELSE metadata[found].todoSnapshot]
    /\ restoreRead' = [restoreRead EXCEPT ![r] = metaWrites]
    /\ watcher' = IF watcherRegistered THEN pause(watcher) ELSE watcher
    /\ restorePc' = [restorePc EXCEPT ![r] = "todos"]
    /\ UNCHANGED <<sessionVars, streamVars, interruptVars, fsDelivered, pausedIds, registryVars,
                   resumeMark, restoreIds, restoreTarget, lastRestore, todoVars, createVars, archiveVars, lineVars>>

\* findCheckpointMessage rejects: the catch of restoreCheckpoint logs and the
\* call returns
RestoreFindFails(r) ==
    /\ restorePc[r] = "find"
    /\ faults < MaxFaults
    /\ faults' = faults + 1
    /\ restorePc' = [restorePc EXCEPT ![r] = "failed"]
    /\ RestoreReturns(r)
    /\ UNCHANGED <<durableVars, callVars, envVars, written, odd, stderrs, nextSid,
                   streamVars, interruptVars, watcherVars, restoreIds, lastRestore,
                   todoVars, createVars, archiveVars, lineVars>>

\* the todo transaction commits; emitTodoUpdate; the 150 ms wait starts
RestoreTodos(r) ==
    /\ restorePc[r] = "todos"
    /\ todos' = restoreTodoState(restoreSnap[r])
    /\ lastRestore' = [target |-> restoreTarget[r], read |-> restoreRead[r],
                       list |-> TodoFields(orderBySequence(todos'))]
    /\ EmitChunks(<<TodoUpdateChunk>>)
    /\ restorePc' = [restorePc EXCEPT ![r] = "settle"]
    /\ UNCHANGED <<sessionVars, interruptVars, watcherVars, restoreIds, restoreTarget,
                   restoreFrom, restoreSnap, restoreRead, todoWrites, clock, createVars, archiveVars, lineVars>>

\* the todo transaction rejects: the catch of restoreCheckpoint logs and the
\* call returns
RestoreTodosFails(r) ==
    /\ restorePc[r] = "todos"
    /\ faults < MaxFaults
    /\ faults' = faults + 1
    /\ restorePc' = [restorePc EXCEPT ![r] = "failed"]
    /\ RestoreReturns(r)
    /\ UNCHANGED <<durableVars, callVars, envVars, written, odd, stderrs, nextSid,
                   streamVars, interruptVars, watcherVars, restoreIds, lastRestore,
                   todoVars, createVars, archiveVars, lineVars>>

\* the 150 ms wait is over; recomputeAndEmitFileState awaits the file tree
RestoreSettled(r) ==
    /\ restorePc[r] = "settle"
    /\ restorePc' = [restorePc EXCEPT ![r] = "recompute"]
    /\ UNCHANGED <<sessionVars, streamVars, interruptVars, watcherVars, restoreIds,
                   checkpointVars, archiveVars, lineVars>>

\* the file tree is there; fs-override is emitted; the 200 ms wait starts
\* getSandbox misses the cache: Sandbox.connect resolves and the sandbox is cached
RestoreReconnects(r) ==
    /\ restorePc[r] = "recompute"
    /\ ~sandboxCached
    /\ sandboxCached' = TRUE
    /\ restorePc' = [restorePc EXCEPT ![r] = "restart"]
    /\ UNCHANGED <<sessionVars, streamVars, interruptVars, watcher, fsDelivered, pausedIds,
                   resumeMark, watcherRegistered, restoreIds, checkpointVars, archiveVars, lineVars>>

\* restartWatchers: startMoruFilesystemWatcher registers a new watcher
RestoreRestartsWatchers(r) ==
    /\ restorePc[r] = "restart"
    /\ watcher' = NewWatcher
    /\ watcherRegistered' = TRUE
    /\ restorePc' = [restorePc EXCEPT ![r] = "recompute"]
    /\ UNCHANGED <<sessionVars, streamVars, interruptVars, fsDelivered, pausedIds,
                   resumeMark, sandboxCached, restoreIds, checkpointVars, archiveVars, lineVars>>

RestoreEmitsTree(r) ==
    /\ restorePc[r] = "recompute"
    /\ sandboxCached
    /\ EmitChunks(<<FsOverrideChunk>>)
    /\ restorePc' = [restorePc EXCEPT ![r] = "wait"]
    /\ UNCHANGED <<sessionVars, interruptVars, watcherVars, restoreIds, checkpointVars,
                   archiveVars, lineVars>>

\* computing the file tree rejects: the catch of recomputeAndEmitFileState
\* logs, nothing is emitted, and the 200 ms wait starts
RestoreTreeFails(r) ==
    /\ restorePc[r] = "recompute"
    /\ faults < MaxFaults
    /\ faults' = faults + 1
    /\ restorePc' = [restorePc EXCEPT ![r] = "wait"]
    /\ UNCHANGED <<durableVars, callVars, envVars, written, odd, stderrs, nextSid,
                   streamVars, interruptVars, watcherVars, restoreIds, checkpointVars, archiveVars, lineVars>>

\* the 200 ms wait is over; resumeFilesystemWatcher; restoreCheckpoint returns
RestoreResumes(r) ==
    /\ restorePc[r] = "wait"
    /\ watcher' = IF watcherRegistered THEN resume(watcher) ELSE watcher
    /\ resumeMark' = IF watcherRegistered /\ watcher.isPaused THEN fsDelivered ELSE resumeMark
    /\ restorePc' = [restorePc EXCEPT ![r] = "done"]
    /\ RestoreReturns(r)
    /\ UNCHANGED <<sessionVars, streamVars, interruptVars, fsDelivered, pausedIds, registryVars,
                   restoreIds, lastRestore, todoVars, createVars, archiveVars, lineVars>>

\* ------------------------------------------------------------------ archive store
\* GCSSandboxStorage.save and restore (src/unnamed/part_013). A file name is a
\* stem and an extension; a path is the sequence of the names from the root
\* directory down, /home/user/.claude and /tmp counting as one name each.
Name(stem, ext) == [stem |-> stem, ext |-> ext]
Workspace == Name("workspace", "")
ClaudeHome == Name(".claude", "")
Tmp == Name("tmp", "")
RootNames == {Workspace, ClaudeHome, Tmp}
DirNames == {Name("src", ""), Name("node_modules", "")}
LeafNames == {Name("a", "log"), Name("f", "txt")}
FilePaths ==
    {<<r, n>> : r \in RootNames, n \in LeafNames}
    \cup {<<r, d, n>> : r \in RootNames, d \in DirNames, n \in LeafNames}
FileData == 1..MaxData

DEFAULT_EXCLUDE_PATTERNS ==
    {Name("node_modules", ""), Name(".pnpm-store", ""), Name("vendor", ""),
     Name("__pycache__", ""), Name(".venv", ""), Name("venv", ""), Name(".env", ""),
     Name(".git", ""), Name(".svn", ""), Name(".hg", ""),
     Name("dist", ""), Name("build", ""), Name(".next", ""), Name(".nuxt", ""),
     Name("target", ""), Name("out", ""),
     Name(".idea", ""), Name(".vscode", ""), Name("*", "swp"), Name("*", "swo"),
     Name(".DS_Store", ""), Name("Thumbs", "db"),
     Name("*", "log"), Name("npm-debug", "log*"), Name("yarn-error", "log*"),
     Name(".cache", ""), Name(".parcel-cache", ""), Name(".turbo", "")}

\* a name matches an exclude pattern of tar: * stands for any stem, and a
\* trailing * for any rest of the extension
Matches(name, pattern) ==
    /\ pattern.stem = "*" \/ pattern.stem = name.stem
    /\ \/ pattern.ext = name.ext
       \/ pattern.ext = "log*" /\ name.ext = "log"

\* tar --exclude=...: a member is left out when one of the names on its path
\* matches one of the patterns
Excluded(path, patterns) ==
    \E i \in 1..Len(path) : \E pattern \in patterns : Matches(path[i], pattern)

\* mutant: a save that archives only the first of its paths
saveFirstPathOnly(fs, paths, excludes) ==
    {f \in fs : /\ f.path[1] = paths[1]
                /\ ~Excluded(f.path, DEFAULT_EXCLUDE_PATTERNS \cup excludes)}

\* the members of the archive tar -czf makes of the paths, relative to /
save(fs, paths, excludes) ==
    {f \in fs : /\ \E i \in 1..Len(paths) : f.path[1] = paths[i]
                /\ ~Excluded(f.path, DEFAULT_EXCLUDE_PATTERNS \cup excludes)}

\* the files of a sandbox after tar -xzf ... -C /: the members are written
\* over what is there, nothing is removed
restore(members, fs) ==
    {f \in fs : \A a \in members : a.path # f.path} \cup members

\* the agent writes a file in its sandbox
SandboxWrite(path, data) ==
    /\ arcPc = "editing"
    /\ Cardinality(fsSource) < MaxFiles
    /\ \A f \in fsSource : f.path # path
    /\ fsSource' = fsSource \cup {[path |-> path, data |-> data]}
    /\ UNCHANGED <<sessionVars, streamVars, interruptVars, watcherVars, restoreVars,
                   checkpointVars, lineVars, arcPc, savePaths, saveExcludes, archive, fsTarget>>

\* save(taskId, userId, sandbox, options) succeeds: the archive and its
\* manifest are in the bucket
ArchiveSave(paths, excludes) ==
    /\ arcPc = "editing"
    /\ archive' = save(fsSource, paths, excludes)
    /\ savePaths' = paths
    /\ saveExcludes' = excludes
    /\ arcPc' = "saved"
    /\ UNCHANGED <<sessionVars, streamVars, interruptVars, watcherVars, restoreVars,
                   checkpointVars, lineVars, fsSource, fsTarget>>

\* tar exits with an error, or a step of save throws: success is false and
\* nothing was uploaded
ArchiveSaveFails ==
    /\ arcPc = "editing"
    /\ faults < MaxFaults
    /\ faults' = faults + 1
    /\ arcPc' = "saveFailed"
    /\ UNCHANGED <<durableVars, callVars, envVars, written, odd, stderrs, nextSid,
                   streamVars, interruptVars, watcherVars, restoreVars, checkpointVars, lineVars,
                   fsSource, savePaths, saveExcludes, archive, fsTarget>>

\* restore(archiveId, sandbox) into a sandbox just created succeeds
ArchiveRestore ==
    /\ arcPc = "saved"
    /\ fsTarget' = restore(archive, fsTarget)
    /\ arcPc' = "restored"
    /\ UNCHANGED <<sessionVars, streamVars, interruptVars, watcherVars, restoreVars,
                   checkpointVars, lineVars, fsSource, savePaths, saveExcludes, archive>>

\* the manifest or the archive cannot be downloaded: success is false and the
\* sandbox is as it was
ArchiveRestoreFails ==
    /\ arcPc = "saved"
    /\ faults < MaxFaults
    /\ faults' = faults + 1
    /\ arcPc' = "restoreFailed"
    /\ UNCHANGED <<durableVars, callVars, envVars, written, odd, stderrs, nextSid,
                   streamVars, interruptVars, watcherVars, restoreVars, checkpointVars, lineVars,
                   fsSource, savePaths, saveExcludes, archive, fsTarget>>

InitArchive ==
    /\ arcPc = "editing"
    /\ fsSource = {}
    /\ savePaths = <<>>
    /\ saveExcludes = {}
    /\ archive = {}
    /\ fsTarget = {}

\* ------------------------------------------------------------------ specification
InitSession ==
    /\ active = NoCall
    /\ taskStatus = "INACTIVE"
    /\ taskSessionId = NoSid
    /\ taskArchive = NoArchive
    /\ persisted = <<>>
    /\ emitted = <<>>
    /\ archives = <<>>
    /\ storageConfigured \in BOOLEAN
    /\ pc = [c \in Calls |-> "idle"]
    /\ snapSid = [c \in Calls |-> NoSid]
    /\ snapArchive = [c \in Calls |-> NoArchive]
    /\ sessionId = [c \in Calls |-> NoSid]
    /\ linesRead = [c \in Calls |-> 0]
    /\ stopped = [c \in Calls |-> FALSE]
    /\ pollTimer = [c \in Calls |-> FALSE]
    /\ hasApiError = [c \in Calls |-> FALSE]
    /\ apiErrorMessage = [c \in Calls |-> NoText]
    /\ completeResolved = [c \in Calls |-> FALSE]
    /\ th = [c \in Calls |-> [o \in Origins |-> IdleThread]]
    /\ sandbox = [c \in Calls |-> "none"]
    /\ files = [c \in Calls |-> NoFiles]
    /\ agent = [c \in Calls |-> "none"]
    /\ agentSid = [c \in Calls |-> NoSid]
    /\ late = [c \in Calls |-> FALSE]
    /\ stdinSent = [c \in Calls |-> <<>>]
    /\ written = 0
    /\ odd = 0
    /\ faults = 0
    /\ stderrs = 0
    /\ nextSid = 1

\* ------------------------------------------------------------------ standard output
\* All of these frame everything but the standard output and its buffer.
StdoutOnly ==
    UNCHANGED <<sessionVars, streamVars, interruptVars, watcherVars, restoreVars,
                checkpointVars, archiveVars, jsonlVars>>

Newline == "\n"

\* the characters of the output: "s", "c" and "u" stand for the text of a JSON
\* object up to its closing brace, with type session_started, session_complete
\* and a type the server does not know
StdoutChars == {"s", "c", "u", "}", " ", Newline}

\* String.prototype.split("\n"): the pieces between the newlines, at least one
RECURSIVE split(_)
split(str) ==
    IF \A i \in 1..Len(str) : str[i] # Newline
    THEN <<str>>
    ELSE LET i == CHOOSE j \in 1..Len(str) :
                      str[j] = Newline /\ \A k \in 1..(j - 1) : str[k] # Newline
         IN  <<SubSeq(str, 1, i - 1)>> \o split(SubSeq(str, i + 1, Len(str)))

\* String.prototype.trim()
trim(str) ==
    LET inked == {i \in 1..Len(str) : str[i] # " "}
    IN  IF inked = {} THEN <<>>
        ELSE SubSeq(str, CHOOSE i \in inked : \A j \in inked : i <= j,
                         CHOOSE i \in inked : \A j \in inked : i >= j)

SyntaxError == [threw |-> TRUE, type |-> "none"]

\* JSON.parse(line): the object, or a SyntaxError when the text is not one
\* complete JSON value with nothing but whitespace around it
JSONparse(line) ==
    LET t == trim(line)
    IN  IF Len(t) = 2 /\ t[2] = "}" /\ t[1] \in {"s", "c", "u"}
        THEN [threw |-> FALSE,
              type |-> CASE t[1] = "s" -> "session_started"
                         [] t[1] = "c" -> "session_complete"
                         [] OTHER -> "unknown"]
        ELSE SyntaxError

\* handleMessage(msg) as far as the stream is concerned: a message of a known
\* type is acted on, any other matches no branch
handleMessage(msg, seen) ==
    IF msg.type \in {"session_started", "session_complete"} THEN Append(seen, msg.type) ELSE seen

\* for (const line of lines) { if (!line.trim()) continue; try { ... } catch {} }
RECURSIVE handleLines(_, _)
handleLines(lines, seen) ==
    IF lines = <<>> THEN seen
    ELSE LET line == Head(lines)
             msg == JSONparse(line)
         IN  handleLines(Tail(lines),
                         IF trim(line) = <<>> \/ msg.threw THEN seen
                         ELSE handleMessage(msg, seen))

\* a buffer that forgets the text after the last newline
remainderDropped(lines) == <<>>

\* buffer = lines.pop() || ""
remainder(lines) == lines[Len(lines)]

InitStdout ==
    /\ stdoutWire = <<>>
    /\ stdoutSent = 0
    /\ stdoutData = <<>>
    /\ buffer = <<>>
    /\ handled = <<>>

\* the subprocess prints one more character
AgentPrints(ch) ==
    /\ Len(stdoutWire) < MaxOut
    /\ stdoutWire' = Append(stdoutWire, ch)
    /\ UNCHANGED <<stdoutSent, stdoutData, buffer, handled>>
    /\ StdoutOnly

\* onStdout(data), data being the next n characters printed
onStdout(n) ==
    /\ stdoutSent + n <= Len(stdoutWire)
    /\ stdoutData' = SubSeq(stdoutWire, stdoutSent + 1, stdoutSent + n)
    /\ stdoutSent' = stdoutSent + n
    /\ LET lines == split(buffer \o stdoutData')
       IN  /\ buffer' = remainder(lines)
           /\ handled' = handleLines(SubSeq(lines, 1, Len(lines) - 1), handled)
    /\ UNCHANGED stdoutWire
    /\ StdoutOnly

\* ------------------------------------------------------------------ session watcher
\* All of these frame everything but the session log and its watcher.
JsonlOnly ==
    UNCHANGED <<sessionVars, streamVars, interruptVars, watcherVars, restoreVars,
                checkpointVars, archiveVars, stdoutVars>>

\* parseSessionEntry(line): null for a blank line and for text JSON.parse rejects
parseSessionEntry(line) ==
    IF trim(line) = <<>> \/ JSONparse(trim(line)).threw THEN "null" ELSE "entry"

InitJsonl ==
    /\ jsonlFile = <<>>
    /\ processedLines = 0
    /\ jsonlCalls = <<>>
    /\ sessionEvents = <<>>

\* the agent appends to its log a whole line, the beginning of one or the rest
\* of the one begun; the sandbox raises a CREATE or WRITE event and
\* handleFileEvent runs up to await sandbox.files.read
ClaudeWrites(text) ==
    /\ Len(jsonlCalls) < MaxWrites
    /\ LET begun == jsonlFile # <<>> /\ jsonlFile[Len(jsonlFile)] # Newline
       IN  IF begun THEN text = <<"}", Newline>>
           ELSE text \in {<<"u", "}", Newline>>, <<"u">>}
    /\ jsonlFile' = jsonlFile \o text
    /\ jsonlCalls' = Append(jsonlCalls, [pc |-> "read", content |-> <<>>, entries |-> <<>>])
    /\ UNCHANGED <<processedLines, sessionEvents>>
    /\ JsonlOnly

\* the sandbox serves sandbox.files.read(fullPath) of call h
FileRead(h) ==
    /\ h <= Len(jsonlCalls)
    /\ jsonlCalls[h].pc = "read"
    /\ jsonlCalls' = [jsonlCalls EXCEPT ![h] = [@ EXCEPT !.pc = "process", !.content = jsonlFile]]
    /\ UNCHANGED <<jsonlFile, processedLines, sessionEvents>>
    /\ JsonlOnly

\* processJsonlFile of call h from the read's resolution to its next await
processJsonlFile(h) ==
    /\ h <= Len(jsonlCalls)
    /\ jsonlCalls[h].pc = "process"
    /\ LET lines == split(jsonlCalls[h].content)
           new == {i \in 1..Len(lines) : i > processedLines /\ parseSessionEntry(lines[i]) = "entry"}
           entries == SelectSeq([i \in 1..Len(lines) |-> i], LAMBDA i : i \in new)
       IN  /\ processedLines' = Len(lines)
           /\ jsonlCalls' = [jsonlCalls EXCEPT ![h] =
                  [pc |-> IF entries = <<>> THEN "done" ELSE "save",
                   content |-> <<>>, entries |-> entries]]
    /\ UNCHANGED <<jsonlFile, sessionEvents>>
    /\ JsonlOnly

\* saveAndEmitEntries of call h: one await prisma.sessionEvent.create resolves
\* and the entry is emitted
saveAndEmitEntries(h) ==
    /\ h <= Len(jsonlCalls)
    /\ jsonlCalls[h].pc = "save"
    /\ sessionEvents' = Append(sessionEvents, Head(jsonlCalls[h].entries))
    /\ jsonlCalls' = [jsonlCalls EXCEPT ![h] =
           [@ EXCEPT !.entries = Tail(@),
                     !.pc = IF Len(jsonlCalls[h].entries) = 1 THEN "done" ELSE "save"]]
    /\ UNCHANGED <<jsonlFile, processedLines>>
    /\ JsonlOnly

Init ==
    /\ InitSession /\ InitStream /\ InitInterrupt /\ InitWatcher /\ InitRestore
    /\ InitCheckpoint /\ InitArchive /\ InitStdout /\ InitJsonl

\* the user sends a message while no earlier call is between its registry check
\* and its registration
NoCallStarting ==
    \A d \in Calls : pc[d] \notin {"findTask", "create", "restoreWorkspace",
                                   "restoreSession", "run"}

UserSends(c) == NoCallStarting /\ SendMessage(c)

\* the body of sendMessage on a task that has no session and no archive yet
Startup(c) ==
    \/ FindTask(c)
    \/ CreateSandbox(c)
    \/ RunAgent(c)
    \/ SendStart(c)
    \/ SendText(c)
    \/ Return(c)

\* the extra steps of sendMessage on a task that has been run before
Resume(c) ==
    \/ RestoreWorkspace(c)
    \/ RestoreSession(c)

\* the doPoll loop and the final polls
Polling(c) ==
    \/ TimerFires(c)
    \/ \E o \in Origins : PollRead(c, o) \/ PollReadFails(c, o)

\* a line read by a poll is persisted and emitted
Persisting(c) == \E o \in Origins : PollCreate(c, o)

\* the async blocks of session_complete and session_error after their poll
TeardownSteps(c) ==
    \E o \in Origins :
        \/ SaveSucceeds(c, o)
        \/ UpdateArchive(c, o)
        \/ KillSandbox(c, o)
        \/ FinalStatus(c, o)

\* an await rejecting, or storage reporting a failure
Failures(c) ==
    \/ CreateSandboxFails(c)
    \/ RunAgentFails(c)
    \/ SendFails(c)
    \/ \E o \in Origins : PollCreateFails(c, o) \/ SaveFails(c, o)

\* an agent that keeps to the protocol and ends its turn with session_complete
AgentBehaves(c) ==
    \/ \E sid \in Sids : AgentSessionStarted(c, sid)
    \/ AgentSessionComplete(c)

\* what else an agent and the clock may do, and the one server step that only
\* a second terminal signal makes possible
AgentMisbehaves(c) ==
    \/ AgentSessionError(c)
    \/ AgentExits(c)
    \/ ClockPassesTimeout(c)
    \/ \E o \in Origins : SaveWithoutSandbox(c, o)

\* One turn of the task in full: the first message, every step of the server,
\* every line the agent may write, every way it may end, and every failure.
Next ==
    \/ UserSends(1)
    \/ \E c \in Calls :
          \/ Startup(c) \/ Polling(c) \/ Persisting(c) \/ TeardownSteps(c) \/ Failures(c)
          \/ AgentBehaves(c) \/ AgentMisbehaves(c)
          \/ \E kind \in LineKinds : AgentWrites(c, kind)

\* Messages sent at any time, also while an earlier call is still between its
\* registry check and its registration, to an agent that keeps to the protocol.
RaceNext ==
    \E c \in Calls :
        \/ SendMessage(c)
        \/ Startup(c) \/ Resume(c) \/ Polling(c) \/ TeardownSteps(c)
        \/ AgentBehaves(c)

\* Turns one after the other, the later ones resuming the session of the
\* earlier, with an agent that keeps to the protocol and writes well-formed lines.
ResumeNext ==
    \E c \in Calls :
        \/ UserSends(c)
        \/ Startup(c) \/ Resume(c) \/ Polling(c) \/ Persisting(c) \/ TeardownSteps(c)
        \/ AgentBehaves(c)
        \/ AgentWrites(c, "ok")

Spec == Init /\ [][Next]_vars

SpecRace == Init /\ [][RaceNext]_vars

SpecResume == Init /\ [][ResumeNext]_vars

SpecStream == Init /\ [][StreamNext]_vars

\* One turn with no log lines and no failing await, under the scheduling node
\* guarantees: a settled await is resumed, a due timer fires, the clock moves on.
\* Nothing is assumed of the agent.
TimeoutNext ==
    \/ UserSends(1)
    \/ \E c \in Calls :
          \/ Startup(c) \/ Polling(c) \/ TeardownSteps(c)
          \/ AgentBehaves(c) \/ AgentMisbehaves(c)

Scheduling ==
    /\ WF_vars(UserSends(1))
    /\ \A c \in Calls :
          /\ WF_vars(Startup(c))
          /\ WF_vars(TimerFires(c))
          /\ WF_vars(ClockPassesTimeout(c))
          /\ \A o \in Origins :
                /\ WF_vars(PollRead(c, o))
                /\ WF_vars(PollReadFails(c, o))
                /\ WF_vars(SaveSucceeds(c, o))
                /\ WF_vars(SaveWithoutSandbox(c, o))
                /\ WF_vars(UpdateArchive(c, o))
                /\ WF_vars(KillSandbox(c, o))
                /\ WF_vars(FinalStatus(c, o))

SpecTimeout == Init /\ [][TimeoutNext]_vars /\ Scheduling

\* Turns one after the other on a configured store whose saves and restores may
\* fail, with an agent that keeps to the protocol and writes no lines, under
\* the scheduling node guarantees for the server's own steps.
PersistNext ==
    \E c \in Calls :
        \/ UserSends(c)
        \/ Startup(c) \/ Resume(c) \/ Polling(c) \/ TeardownSteps(c)
        \/ RestoreWorkspaceFails(c)
        \/ \E o \in Origins : SaveFails(c, o)
        \/ AgentBehaves(c)

PersistScheduling ==
    \A c \in Calls :
        /\ WF_vars(Startup(c))
        /\ WF_vars(Resume(c))
        /\ \A o \in Origins :
              /\ WF_vars(PollRead(c, o))
              /\ WF_vars(PollReadFails(c, o))
              /\ WF_vars(SaveSucceeds(c, o))
              /\ WF_vars(UpdateArchive(c, o))
              /\ WF_vars(KillSandbox(c, o))
              /\ WF_vars(FinalStatus(c, o))

SpecPersist == Init /\ [][PersistNext]_vars /\ PersistScheduling


\* One turn with no log lines, interrupted at any time by calls of interrupt.
InterruptNext ==
    \/ UserSends(1)
    \/ Interrupt \/ InterruptSent \/ InterruptFails
    \/ \E c \in Calls :
          \/ Startup(c) \/ Polling(c) \/ TeardownSteps(c)
          \/ AgentBehaves(c)

SpecInterrupt == Init /\ [][InterruptNext]_vars

\* One turn with no log lines while chunks are published for the task and
\* sockets join its room and connect again.
FlagNext ==
    \/ UserSends(1)
    \/ \E c \in Calls :
          \/ Startup(c) \/ Polling(c) \/ TeardownSteps(c)
          \/ AgentBehaves(c)
    \/ EmitStreamChunk
    \/ \E v \in Viewers : JoinTask(v) \/ JoinRoom(v) \/ JoinDone(v) \/ Reconnect(v)

SpecFlag == Init /\ [][FlagNext]_vars

\* The watcher alone: raw events, the debounce timer, pause, resume and stop in
\* any order.
WatcherNext ==
    \/ \E path \in Paths \cup {IgnoredPath} : HandleFileChange(path)
    \/ FlushTimerFires
    \/ Pause
    \/ ResumeWatcher
    \/ StopBegins
    \/ StopEnds

SpecWatcher == Init /\ [][WatcherNext]_vars

\* Restores of the task's checkpoints, overlapping or not, while the sandbox
\* delivers filesystem events to the task's watcher.
RestoreNext ==
    \/ \E path \in Paths \cup {IgnoredPath} : HandleFileChange(path)
    \/ FlushTimerFires
    \/ \E r \in Restores :
          \/ RestoreBegins(r) \/ RestorePauses(r) \/ RestoreTodos(r) \/ RestoreTodosFails(r)
          \/ RestoreSettled(r) \/ RestoreEmitsTree(r) \/ RestoreResumes(r)

SpecRestore == Init /\ [][RestoreNext]_vars

\* Checkpoints and restores with the todo tool at work: no turn, no viewer and
\* no filesystem event; the callers wait for one call of the checkpoint service
\* to return before they make the next.
NoCheckpointCall ==
    /\ \A k \in Checkpoints : cpPc[k] \in {"idle", "done", "failed"}
    /\ \A r \in Restores : restorePc[r] \in {"idle", "done", "failed"}

CheckpointNext ==
    \/ Tick
    \/ \E content \in Contents : TodoAdd(content)
    \/ \E t \in todos : TodoUpdate(t)
    \/ \E k \in Checkpoints, m \in Messages : NoCheckpointCall /\ createCheckpoint(k, m)
    \/ \E k \in Checkpoints :
          CheckpointSnapshot(k) \/ CheckpointRead(k) \/ CheckpointUpdate(k)
    \/ \E r \in Restores, m \in Targets : NoCheckpointCall /\ restoreCheckpoint(r, m)
    \/ \E r \in Restores :
          \/ RestorePauses(r)
          \/ RestoreTodos(r)
          \/ RestoreSettled(r)
          \/ RestoreEmitsTree(r)
          \/ RestoreResumes(r)

SpecCheckpoint == Init /\ [][CheckpointNext]_vars

\* Checkpoints and restores whose database calls may reject, with the todo
\* tool at rest.
CheckpointFaultsNext ==
    \/ \E k \in Checkpoints, m \in Messages : NoCheckpointCall /\ createCheckpoint(k, m)
    \/ \E k \in Checkpoints :
          CheckpointSnapshot(k) \/ CheckpointRead(k) \/ CheckpointUpdate(k) \/ CheckpointFails(k)
    \/ \E r \in Restores, m \in Targets : NoCheckpointCall /\ restoreCheckpoint(r, m)
    \/ \E r \in Restores :
          \/ RestorePauses(r) \/ RestoreFindFails(r)
          \/ RestoreTodos(r) \/ RestoreTodosFails(r)
          \/ RestoreSettled(r)
          \/ RestoreEmitsTree(r) \/ RestoreTreeFails(r)
          \/ RestoreResumes(r)

SpecCheckpointFaults == Init /\ [][CheckpointFaultsNext]_vars

\* One sandbox is filled, saved, and its archive restored into a new sandbox.
ArchiveNext ==
    \/ \E path \in FilePaths, data \in FileData : SandboxWrite(path, data)
    \/ \E paths \in {<<Workspace>>, <<Workspace, ClaudeHome>>},
          excludes \in {{}, {Name("f", "txt")}} : ArchiveSave(paths, excludes)
    \/ ArchiveSaveFails
    \/ ArchiveRestore
    \/ ArchiveRestoreFails

SpecArchive == Init /\ [][ArchiveNext]_vars

\* One turn with no log lines in which the agent's stderr may show a startup
\* error and the absolute timeout may pass, whatever else the agent reports.
TerminalNext ==
    \/ UserSends(1)
    \/ \E c \in Calls :
          \/ Startup(c) \/ Polling(c) \/ TeardownSteps(c)
          \/ AgentBehaves(c)
          \/ AgentStderr(c)
          \/ ClockPassesTimeout(c)

SpecTerminal == Init /\ [][TerminalNext]_vars

\* Turns one after the other, the later ones resuming the session of the
\* earlier, with an agent that may report session_error at any time and a
\* clock that may pass the absolute session timeout.
StopNext ==
    \E c \in Calls :
        \/ UserSends(c)
        \/ Startup(c) \/ Resume(c) \/ Polling(c) \/ TeardownSteps(c)
        \/ AgentBehaves(c)
        \/ AgentSessionError(c)
        \/ ClockPassesTimeout(c)

SpecStop == Init /\ [][StopNext]_vars

\* the server process starts anew: the maps it keeps in memory are empty
ServerRestarts ==
    /\ NoCheckpointCall
    /\ sandboxCached
    /\ watcher' = [NewWatcher EXCEPT !.watchHandle = "off"]
    /\ watcherRegistered' = FALSE
    /\ sandboxCached' = FALSE
    /\ UNCHANGED <<sessionVars, streamVars, interruptVars, fsDelivered, pausedIds,
                   resumeMark, restoreVars, checkpointVars, archiveVars, lineVars>>

\* Restores one after the other while the sandbox delivers filesystem events,
\* on a server that may have been started anew since the workspace was prepared.
ReconnectNext ==
    \/ \E path \in Paths \cup {IgnoredPath} : HandleFileChange(path)
    \/ FlushTimerFires
    \/ ServerRestarts
    \/ \E r \in Restores : NoCheckpointCall /\ RestoreBegins(r)
    \/ \E r \in Restores :
          \/ RestorePauses(r) \/ RestoreTodos(r)
          \/ RestoreSettled(r)
          \/ RestoreReconnects(r) \/ RestoreRestartsWatchers(r)
          \/ RestoreEmitsTree(r)
          \/ RestoreResumes(r)

SpecReconnect == Init /\ [][ReconnectNext]_vars

\* restoreSession rejects (findMany, mkdir or files.write): sendMessage rejects
\* before the agent is started and before active.set
RestoreSessionFails(c) ==
    /\ pc[c] = "restoreSession"
    /\ faults < MaxFaults
    /\ faults' = faults + 1
    /\ pc' = [pc EXCEPT ![c] = "threw"]
    /\ UNCHANGED <<durableVars, snapSid, snapArchive, sessionId, linesRead, stopped,
                   pollTimer, hasApiError, apiErrorMessage, completeResolved, th,
                   envVars, written, odd, stderrs, nextSid>>
    /\ SessionOnly

\* Turns one after the other with an agent that keeps to the protocol, where
\* restoring the session log, starting the agent or writing to its stdin may fail.
KillNext ==
    \E c \in Calls :
        \/ UserSends(c)
        \/ Startup(c) \/ Resume(c) \/ Polling(c) \/ TeardownSteps(c)
        \/ RestoreSessionFails(c)
        \/ RunAgentFails(c)
        \/ SendFails(c)
        \/ AgentBehaves(c)

\* every step of the server is taken once it can be, and the agent answers
KillScheduling ==
    \A c \in Calls :
        /\ WF_vars(Startup(c))
        /\ WF_vars(Resume(c))
        /\ WF_vars(TimerFires(c))
        /\ WF_vars(AgentBehaves(c))
        /\ \A o \in Origins :
              /\ WF_vars(PollRead(c, o))
              /\ WF_vars(PollReadFails(c, o))
              /\ WF_vars(SaveSucceeds(c, o))
              /\ WF_vars(UpdateArchive(c, o))
              /\ WF_vars(KillSandbox(c, o))
              /\ WF_vars(FinalStatus(c, o))

SpecKill == Init /\ [][KillNext]_vars /\ KillScheduling

\* POST /api/tasks/:taskId/initiate: the promise of sendMessage rejects and the
\* route's catch marks the task FAILED
InitiateCatches(c) ==
    /\ pc[c] = "rejected"
    /\ taskStatus' = "FAILED"
    /\ pc' = [pc EXCEPT ![c] = "threw"]
    /\ UNCHANGED <<active, taskSessionId, taskArchive, persisted, emitted, archives,
                   storageConfigured, snapSid, snapArchive, sessionId, linesRead, stopped,
                   pollTimer, hasApiError, apiErrorMessage, completeResolved, th,
                   envVars, budgetVars>>
    /\ SessionOnly

\* the user-message handler: sendMessage throws and the handler's catch emits
\* message-error to the socket
UserMessageCatches(c) ==
    /\ pc[c] = "rejected"
    /\ pc' = [pc EXCEPT ![c] = "threw"]
    /\ UNCHANGED <<durableVars, snapSid, snapArchive, sessionId, linesRead, stopped,
                   pollTimer, hasApiError, apiErrorMessage, completeResolved, th,
                   envVars, budgetVars>>
    /\ SessionOnly

\* Messages sent one after the other, also while a turn is running, by the
\* user-message handler or the initiate route, to an agent that keeps to the
\* protocol and writes well-formed lines.
RejectNext ==
    \E c \in Calls :
        \/ UserSends(c)
        \/ Startup(c) \/ Polling(c) \/ Persisting(c) \/ TeardownSteps(c)
        \/ AgentBehaves(c)
        \/ AgentWrites(c, "ok")
        \/ InitiateCatches(c)
        \/ UserMessageCatches(c)

SpecReject == Init /\ [][RejectNext]_vars

\* A subprocess that prints any text, delivered in chunks of any size.
StdoutNext ==
    \/ \E ch \in StdoutChars : AgentPrints(ch)
    \/ \E n \in 1..MaxOut : onStdout(n)

SpecStdout == Init /\ [][StdoutNext]_vars

\* One session log written line by line, whole or in two parts, every write
\* raising an event, with a sandbox and a database that never fail.
JsonlNext ==
    \/ \E text \in {<<"u", "}", Newline>>, <<"u">>, <<"}", Newline>>} : ClaudeWrites(text)
    \/ \E h \in 1..MaxWrites : FileRead(h) \/ processJsonlFile(h) \/ saveAndEmitEntries(h)

SpecJsonl == Init /\ [][JsonlNext]_vars

\* ------------------------------------------------------------------ claims
\* a call that has passed the registry check and has not yet left sendMessage
InTurn(c) ==
    pc[c] \in {"findTask", "create", "restoreWorkspace", "restoreSession", "run",
               "sendStart", "sendMsg", "awaiting"}
Registered(c) == pc[c] \in {"sendStart", "sendMsg", "awaiting"}
Ended(c) == pc[c] \in {"returned", "threw"}
EmittedEvents(name) == {k \in 1..Len(emitted) : emitted[k].ev = name}

\* C1: at most one turn of the task is active at a time: of the calls issued
\* concurrently, no two are both inside sendMessage with a sandbox of their own.
C1_OneTurnPerTask ==
    \A c, d \in Calls :
        c # d => ~(InTurn(c) /\ InTurn(d) /\ sandbox[c] = "alive" /\ sandbox[d] = "alive")

\* C2: the Session Events are persisted in strictly increasing log-line order,
\* each line once.
C2_ExactlyOnceInOrder ==
    \A k \in 1..(Len(persisted) - 1) : persisted[k].id < persisted[k + 1].id

\* C3: once the absolute timeout has elapsed, a turn that waits for its
\* completion signal eventually returns.
C3_TurnEnds == \A c \in Calls : (pc[c] = "awaiting" /\ late[c]) ~> (pc[c] = "returned")

\* C4: when a poll of the turn has read an entry with the API-error marker, the
\* turn ends FAILED with a session-error event carrying that entry's text, and
\* no session-complete event.
ApiErrorsRead == {k \in 1..Len(persisted) : persisted[k].kind = "apierr"}
C4_ApiErrorWins ==
    (pc[1] = "returned" /\ ApiErrorsRead # {}) =>
        /\ taskStatus = "FAILED"
        /\ EmittedEvents("session-complete") = {}
        /\ \E k \in EmittedEvents("session-error") :
              \E j \in ApiErrorsRead : emitted[k].text = ApiText(persisted[j].id)

\* C5: a viewer whose join and history request have both been served has been
\* sent exactly the chunks published, in order, each once.
C5_LateJoinerSeesAll ==
    \A v \in Viewers :
        (joinPc[v] = "done" /\ historyPc[v] = "done") => received[v] = published

\* C6: the first turn, with session_started, three well-formed lines and
\* session_complete: when sendMessage returns the task is COMPLETED, the three
\* lines are the persisted events, in log order, and one archive is stored.
PersistedLines == [k \in 1..Len(persisted) |-> Line(persisted[k].id, persisted[k].kind)]
C6_Scenario ==
    (/\ pc[1] = "returned"
     /\ \A d \in Calls \ {1} : pc[d] = "idle"
     /\ storageConfigured
     /\ th[1]["agent"].mode = "complete"
     /\ agentSid[1] # NoSid
     /\ files[1][agentSid[1]] = <<Line(1, "ok"), Line(2, "ok"), Line(3, "ok")>>)
    => /\ taskStatus = "COMPLETED"
       /\ PersistedLines = files[1][agentSid[1]]
       /\ taskArchive # NoArchive
       /\ Len(archives) = 1

\* C7: a call that had registered the task leaves the registry without the task
\* when it finishes, whether it returns or throws.
C7_RegistryCleared ==
    [][\A c \in Calls : (Registered(c) /\ Ended(c)') => active' = NoCall]_vars
C7_Witness ==
    /\ pc[1] = "threw"
    /\ stdinSent[1] # <<>>
    /\ active = NoCall

\* C8: when the subprocess has exited without a terminal message, the turn ends
\* FAILED and a session-error event went to the viewers.
C8_ExitFails ==
    \A c \in Calls :
        (agent[c] = "exited" /\ pc[c] = "returned") =>
            /\ taskStatus = "FAILED"
            /\ EmittedEvents("session-error") # {}

C10_SkipsMalformed ==
    \A c \in Calls :
        (/\ pc[c] = "returned" /\ agent[c] = "finished" /\ agentSid[c] # NoSid
         /\ ~late[c] /\ faults = 0) =>
            \A k \in 1..Len(files[c][agentSid[c]]) :
                LET l == files[c][agentSid[c]][k] IN
                l.kind \in {"ok", "apierr"} =>
                    \E j \in 1..Len(persisted) : persisted[j].id = l.id

\* the async block of a terminal message has emitted its terminal event
TerminalEmitted(c, o) == th[c][o].phase \in {"save", "update", "kill", "status", "finished"}

\* the well-formed lines of a log
WellFormedLines(lines) == {k \in 1..Len(lines) : lines[k].kind \in {"ok", "apierr"}}

\* C11: when the agent has sent its stop signal (after which it writes no more)
\* and the terminal event of that signal has been emitted, every well-formed
\* line of the session log has been persisted and emitted; no await failed.
C11_DrainedBeforeTerminal ==
    \A c \in Calls :
        (/\ agent[c] \in {"finished", "killed"} /\ TerminalEmitted(c, "agent")
         /\ agentSid[c] # NoSid /\ faults = 0) =>
            \A k \in WellFormedLines(files[c][agentSid[c]]) :
                LET l == files[c][agentSid[c]][k] IN
                /\ \E j \in 1..Len(persisted) :
                      persisted[j].sid = agentSid[c] /\ persisted[j].id = l.id
                /\ \E j \in EmittedEvents("session-entry") :
                      emitted[j].sid = agentSid[c] /\ emitted[j].id = l.id

C13_ArchiveOnlyOnSuccess ==
    [][/\ taskArchive' # taskArchive =>
             /\ taskArchive' \in 1..Len(archives)
             /\ \E c \in Calls, o \in Origins :
                   th[c][o].phase = "update" /\ th[c][o].saved = taskArchive'
       /\ \A c \in Calls, o \in Origins :
             (th[c][o].phase = "save" /\ th'[c][o].phase = "kill") =>
                 taskArchive' = taskArchive]_vars
C13_Witness ==
    /\ th[1]["timeout"].phase = "finished"
    /\ th[1]["agent"].phase = "finished"
    /\ Len(archives) = 1
    /\ taskArchive = 1

\* C14: a call that waits for the restore of its workspace goes on to start the
\* agent subprocess whether the restore succeeds or fails, and a block that
\* waits for its workspace save goes on to kill the sandbox, set the final
\* status and let sendMessage return whether the save succeeds or fails.
C14_PersistenceNonFatal ==
    /\ \A c \in Calls : (pc[c] = "restoreWorkspace") ~> (agent[c] # "none")
    /\ \A c \in Calls, o \in Origins :
          (th[c][o].phase = "save") ~>
              (th[c][o].phase = "finished" /\ sandbox[c] = "killed" /\ pc[c] = "returned")
C14_Witness ==
    /\ snapArchive[2] = 1
    /\ faults = 1
    /\ Len(archives) = 2
    /\ agent[2] # "none"
    /\ pc[2] = "returned"

\* the members of a sequence
Elements(seq) == {seq[k] : k \in 1..Len(seq)}

\* C15: while a turn is running whose agent has not reported session_started,
\* no call of interrupt has written session_interrupt to the subprocess's stdin
\* and none has ended in an error.
C15_NoInterruptBeforeSession ==
    \A c \in Calls :
        (InTurn(c) /\ agent[c] = "running") =>
            ("session_interrupt" \notin Elements(stdinSent[c]) /\ intResult # "threw")

\* C16: a call of interrupt writes one session_interrupt to the stdin of the
\* registered subprocess, or nothing when the registry is empty; neither the
\* call nor its completion touches the registry, the poller, the sandbox or
\* the place sendMessage is at, and sendMessage returns only once the
\* completion path has resolved the turn.
C16_InterruptOnlyRequests ==
    [][/\ interrupts' # interrupts =>
             /\ IF active # NoCall
                THEN stdinSent' = [stdinSent EXCEPT ![active] = Append(@, "session_interrupt")]
                ELSE stdinSent' = stdinSent
             /\ UNCHANGED <<active, th, linesRead, stopped, pollTimer, sandbox, pc,
                            completeResolved>>
       /\ (intPc = "sending" /\ intPc' = "idle") =>
             UNCHANGED <<active, th, linesRead, stopped, pollTimer, sandbox, pc,
                         completeResolved, stdinSent>>
       /\ \A c \in Calls :
             (pc'[c] = "returned" /\ pc[c] # "returned") => completeResolved[c]]_vars
C16_Witness ==
    /\ interrupts = 2
    /\ intResult = "noop"
    /\ "session_interrupt" \in Elements(stdinSent[1])
    /\ pc[1] = "returned"

\* C17: once the chunk of type complete has been published for the task, the
\* task's stream buffer is empty.
C17_BufferClearedOnTerminal ==
    Terminal \in Elements(published) => streamChunks = <<>>

\* C18: the isStreaming flag of the stream-state event sent to a socket that
\* connects again for the task is true exactly when a turn of the task is in
\* progress.
C18_FlagTracksTurn ==
    [][\A v \in Viewers :
          (connTask[v] /\ flagSent[v] = "none" /\ flagSent'[v] # "none") =>
              (flagSent'[v] = "true" <=> \E c \in Calls : InTurn(c))]_vars

\* C19: while the watcher is paused its debounce map is empty and no flush is
\* scheduled, and nothing is emitted; an event delivered during a pause is
\* never emitted; and whatever is emitted was delivered after the last resume.
C19_PausedDropsEvents ==
    /\ [](watcher.isPaused => (watcher.changeBuffer = <<>> /\ ~watcher.flushTimer))
    /\ [](Elements(published) \cap pausedIds = {})
    /\ [][/\ watcher.isPaused => published' = published
          /\ \A k \in Elements(published') \ Elements(published) : k > resumeMark]_vars
C19_Witness ==
    /\ published = <<3>>
    /\ pausedIds = {2}
    /\ resumeMark = 2

\* C20: no filesystem event delivered while a restore is between its pause
\* step and its resume step is ever emitted as an fs-change chunk.
C20_RestoreEventsNeverBroadcast ==
    Elements(published) \cap restoreIds = {}

\* the task's todo list: its rows in the order of their sequence
TodoList == TodoFields(orderBySequence(todos))

\* C21: when the todo transaction of a restore commits, the task's todo list is
\* the restored snapshot (same ids, contents, statuses and order, nothing
\* else); and a restore of the same target that read the same checkpoints as
\* the restore before it leaves the same todo list.
C21_RestoreEqualsSnapshot ==
    [][\A r \in Restores :
          (restorePc[r] = "todos" /\ restorePc'[r] = "settle")
          => /\ TodoFields(orderBySequence(todos')) = TodoFields(restoreSnap[r])
             /\ Cardinality(todos') = Len(restoreSnap[r])
             /\ (lastRestore.target = restoreTarget[r] /\ lastRestore.read = restoreRead[r])
                => TodoFields(orderBySequence(todos')) = lastRestore.list]_vars

\* a second restore of the same target has committed a non-empty snapshot after
\* the todo tool had changed the list
C21_Witness ==
    /\ restorePc[1] = "done"
    /\ restorePc[2] = "settle"
    /\ restoreSnap[2] # <<>>
    /\ TodoList = TodoFields(restoreSnap[2])
    /\ todoWrites > Cardinality(todos)
    /\ \E t \in todos : t.updatedAt # restoreSnap[2][1].updatedAt

C23_CheckpointImmutable ==
    [][\A m \in Messages : metadata[m].exists => metadata'[m] = metadata[m]]_vars

\* C24: a database call of createCheckpoint or restoreCheckpoint that rejects
\* ends the call normally or lets it go on; no call ever ends by throwing.
C24_FailuresCaught ==
    [][/\ \A k \in Checkpoints :
             /\ cpPc'[k] # "threw"
             /\ (cpPc'[k] # cpPc[k] /\ faults' > faults) => cpPc'[k] = "failed"
       /\ \A r \in Restores :
             /\ restorePc'[r] # "threw"
             /\ (restorePc'[r] # restorePc[r] /\ faults' > faults)
                => restorePc'[r] \in {"failed", "wait"}]_vars

\* a createCheckpoint whose database call rejected has returned, and a restore
\* made after it has run to its end
C24_Witness ==
    /\ \E k \in Checkpoints : cpPc[k] = "failed"
    /\ \E r \in Restores : restorePc[r] = "done"

\* the files of a sandbox that lie under the saved paths and match no exclude
\* pattern of the save
KeptFiles(fs) ==
    {f \in fs : /\ \E i \in 1..Len(savePaths) : f.path[1] = savePaths[i]
                /\ ~Excluded(f.path, DEFAULT_EXCLUDE_PATTERNS \cup saveExcludes)}

InPollFile(c, o) == th[c][o].phase \in {"read", "create"}

\* C26: at most one pollFile execution of the task is in flight at any time.
C26_PollsSequential ==
    Cardinality({co \in Calls \X Origins : InPollFile(co[1], co[2])}) <= 1

\* C27: in every turn at most one async block of a terminal message emits its
\* terminal event and runs the teardown sequence.
C27_OneTerminal ==
    \A c \in Calls : Cardinality({o \in Origins : TerminalEmitted(c, o)}) <= 1

\* C28: when a pollFile execution persists the line at index i, the offset it
\* goes on with, and returns at the least, is greater than i.
C28_OffsetPastPersisted ==
    [][\A c \in Calls, o \in Origins :
          (th[c][o].phase = "create" /\ th'[c][o] # th[c][o] /\ persisted' # persisted)
          => th[c][o].from + 1 > th[c][o].i]_vars

\* the session events stored for a session
EventsStored(sid) == {j \in 1..Len(persisted) : persisted[j].sid = sid}

\* C29: the offset a call polls from never lies beyond the lines that have
\* been read from, or restored to, the log of its current session; it is 0
\* when the agent has just reported a session other than the resumed one.
C29_OffsetOfCurrentSession ==
    \A c \in Calls :
        sessionId[c] # NoSid => linesRead[c] <= Cardinality(EventsStored(sessionId[c]))

\* the async blocks of terminal messages that a call has started
FinalBlocks(c) == {o \in Origins : th[c][o].phase # "idle" /\ th[c][o].mode # "poll"}

\* C30: pollFile runs only after session_started has been received; once a stop
\* signal has been handled no regular poll is armed, and exactly one async
\* block of a terminal message has started, which began with a final poll.
C30_PollWindow ==
    [][\A c \in Calls :
          /\ \A o \in Origins : InPollFile(c, o)' => agentSid'[c] # NoSid
          /\ stopped'[c] => ~pollTimer'[c] /\ Cardinality(FinalBlocks(c)') = 1
          /\ \A o \in Origins :
                (th[c][o].phase = "idle" /\ th'[c][o].phase # "idle" /\ th'[c][o].mode # "poll")
                => th'[c][o].phase = "read"]_vars

\* the session entries among the first n events emitted to the room
EntriesEmitted(n) == {k \in 1..n : emitted[k].ev = "session-entry"}

\* C31: every session entry emitted has been persisted before, under the same
\* session id; and when the create of a line fails, no entry is emitted in
\* that step and the offset pollFile returns is not past the line.
C31_PersistedBeforeEmitted ==
    /\ [](\A k \in EntriesEmitted(Len(emitted)) :
             \E j \in 1..Len(persisted) :
                 persisted[j].sid = emitted[k].sid /\ persisted[j].id = emitted[k].id)
    /\ [][\A c \in Calls, o \in Origins :
             (th[c][o].phase = "create" /\ th'[c][o] # th[c][o] /\ persisted' = persisted)
             => /\ EntriesEmitted(Len(emitted))' = EntriesEmitted(Len(emitted))
                /\ th[c][o].from <= th[c][o].i
                /\ th[c][o].mode = "poll" => linesRead'[c] <= th[c][o].i]_vars

\* a line whose create failed once has been persisted and emitted by a later poll
C31_Witness ==
    /\ faults > 0
    /\ pc[1] = "awaiting"
    /\ ~stopped[1]
    /\ linesRead[1] = 1
    /\ Len(persisted) = 1
    /\ Cardinality(EntriesEmitted(Len(emitted))) = 1

\* C32: every sandbox that sendMessage has created is eventually killed.
C32_SandboxKilled ==
    \A c \in Calls : (sandbox[c] = "alive") ~> (sandbox[c] = "killed")

\* no call of restoreCheckpoint is between its first step and its return
NoRestoreRunning == \A r \in Restores : restorePc[r] \in {"idle", "done", "failed"}

\* C33: once every restore that was started has returned, the filesystem
\* watcher of the task is not paused.
C33_ResumedOnReturn == NoRestoreRunning => ~watcher.isPaused

\* C34: while any restore is between its pause step and its resume step, the
\* watcher is paused, also when another restore has already resumed it.
C34_PausedUntilLastResume == RestoreWindowOpen => watcher.isPaused

\* C35: while a restore is between its pause step and its resume step, the
\* watcher registered for the task is paused.
C35_RegisteredWatcherPaused ==
    (RestoreWindowOpen /\ watcherRegistered) => watcher.isPaused

\* restore r takes the step from one position of restoreCheckpoint to another
RestoreStep(r, from, to) == restorePc[r] = from /\ restorePc'[r] = to

\* The steps of the restores in their order; recomputeAndEmitFileState may
\* return without a broadcast only if mayFail.
RestoreOrder(mayFail) ==
    /\ \A r \in Restores :
          /\ RestoreStep(r, "todos", "settle")
             => /\ watcherRegistered => watcher.isPaused
                /\ todos' = restoreTodoState(restoreSnap[r])
                /\ published' = Append(published, TodoUpdateChunk)
          /\ RestoreStep(r, "recompute", "wait")
             => /\ watcherRegistered => watcher.isPaused
                /\ \/ published' = Append(published, FsOverrideChunk)
                   \/ mayFail /\ published' = published /\ faults' = faults + 1
    /\ published' # published
       => \E r \in Restores : RestoreStep(r, "todos", "settle") \/ RestoreStep(r, "recompute", "wait")
    /\ (watcher.isPaused /\ ~watcher'.isPaused)
       => \E r \in Restores : RestoreStep(r, "wait", "done")

OneChangePerPath(buf) ==
    \A j, k \in 1..Len(buf) : j # k => buf[j].path # buf[k].path

\* C37: a watcher has at most one flush timer pending; its debounce map holds
\* one change per path, the most recent one recorded; and whatever a step
\* emits is the content of the map, which the step leaves empty with no
\* timer noted.
C37_OneTimerOneChangePerPath ==
    /\ [](watcher.timers <= 1 /\ OneChangePerPath(watcher.changeBuffer))
    /\ [][/\ published' # published
             => /\ published' = published \o Flushed(watcher)
                /\ watcher'.changeBuffer = <<>>
                /\ ~watcher'.flushTimer
          /\ watcher'.timers < watcher.timers => watcher'.changeBuffer = <<>>
          /\ (fsDelivered' # fsDelivered /\ watcher'.changeBuffer # watcher.changeBuffer)
             => /\ \E k \in 1..Len(watcher'.changeBuffer) :
                      watcher'.changeBuffer[k].id = fsDelivered'
                /\ Len(watcher'.changeBuffer) <= Len(watcher.changeBuffer) + 1]_vars

\* two events were delivered to a running watcher and one flush emitted a
\* single change, the later one
C37_Witness ==
    /\ fsDelivered = 2
    /\ pausedIds = {}
    /\ published = <<2>>
    /\ watcher.changeBuffer = <<>>
    /\ watcher.timers = 0

\* a call is rejected, or its caller reacts to the rejection
RejectionStep(c) ==
    /\ pc'[c] # pc[c]
    /\ pc'[c] = "rejected" \/ pc[c] = "rejected"

\* C40: a sendMessage call rejected because a turn is already active has no
\* effect on the task: neither the rejection nor its caller's reaction to it
\* changes the active registry, the running turn or the task's status
C40_RejectionHasNoEffect ==
    [][\A c \in Calls : RejectionStep(c) => UNCHANGED <<active, taskStatus, th, sandbox>>]_vars

\* the text delivered to onStdout so far
Delivered == SubSeq(stdoutWire, 1, stdoutSent)

\* the k-th newline-terminated line of a text
LineOf(str, k) ==
    LET ends == {i \in 1..Len(str) : str[i] = Newline}
        nth(m) == CHOOSE i \in ends : Cardinality({j \in ends : j < i}) = m - 1
    IN  SubSeq(str, IF k = 1 THEN 1 ELSE nth(k - 1) + 1, nth(k) - 1)

\* the newline-terminated lines of a text, in order
CompleteLines(str) ==
    [k \in 1..Cardinality({i \in 1..Len(str) : str[i] = Newline}) |-> LineOf(str, k)]

IsControlMessage(line) ==
    /\ ~JSONparse(line).threw
    /\ JSONparse(line).type \in {"session_started", "session_complete"}

\* the types of the control messages among the lines of a text, in order
ControlMessages(str) ==
    LET msgs == SelectSeq(CompleteLines(str), IsControlMessage)
    IN  [k \in 1..Len(msgs) |-> JSONparse(msgs[k]).type]

JsonlQuiet == \A h \in 1..Len(jsonlCalls) : jsonlCalls[h].pc = "done"

\* how often line k of the log was persisted and emitted
TimesStored(k) == Cardinality({i \in 1..Len(sessionEvents) : sessionEvents[i] = k})

\* C39: no line of the log is persisted and emitted twice, and once every event
\* has been handled every complete line has been persisted and emitted
C39_EachLineOnce ==
    /\ \A k \in 1..MaxWrites : TimesStored(k) <= 1
    /\ JsonlQuiet => \A k \in 1..Len(CompleteLines(jsonlFile)) : TimesStored(k) = 1

====
